---- MODULE Spec2Model ----
(***************************************************************************)
(* A state-machine model of dexdumper: the fault-barrier accessor          *)
(* (signal_handler.c), the dedup registry (registry_manager.c, the cleanup *)
(* in main.c), the persistence path that composes check and insert         *)
(* (file_utils.c) and the header validator (dex_detector.c).               *)
(*                                                                         *)
(* One specification per component:                                        *)
(*   SpecAccess    threads calling read_memory_safely                      *)
(*   SpecRegistry  one caller driving the registry API, call by call       *)
(*   SpecWorkers   worker tasks running dump_memory_to_file and cleanup    *)
(*   SpecHeader    validate_dex_header_structure over candidate headers    *)
(***************************************************************************)
EXTENDS Integers, Sequences, FiniteSets, TLC

VARIABLES
    \* ---- signal_handler.c ----
    alive,                     \* the process has not been terminated
    exit_code,                 \* how it ended: -1 running, 128+sig by _exit, sig when killed
    disposition,               \* disposition of SIGSEGV / SIGBUS: "default" or "handler"
    signal_handlers_installed, \* signal_handler.c:9
    signal_handler_stack,      \* signal_handler.c:10, with the allocation history
    signal_handler_mutex,      \* signal_handler.c:8: 0 free, else the holding thread
    install_log,               \* the steps install_memory_signal_handlers took, one by one, in order
    recovery_buffer_ready,     \* signal_handler.c:5, one per thread-local slot
    signal_recovery_buffer,    \* signal_handler.c:4, one per thread-local slot
    apc,                       \* each thread's position in read_memory_safely
    areq,                      \* each thread's current (or last) request
    acall,                     \* each thread's record of its current (or last) call
    \* ---- registry_manager.c ----
    dumped_files_registry,     \* registry_manager.c:4: NULL or the array
    dumped_files_count,        \* registry_manager.c:5
    dumped_files_capacity,     \* registry_manager.c:6
    dump_registry_mutex,       \* registry_manager.c:7: 0 free, else the holder
    reg_log,                   \* entries registered since the array was last empty
    reg_last,                  \* the last registry call: what, with what, its result
    reg_pre,                   \* the registry as it was before the last call
    \* ---- file_utils.c / main.c worker tasks ----
    wpc,                       \* each worker's position
    wjob,                      \* each worker's current job (region inode, payload digest)
    wop,                       \* the registry call a worker is inside
    wret,                      \* the result of the worker's last registry call
    wdone,                     \* result of each worker's dump_memory_to_file
    out_dir,                   \* digests of the files written to the output directory
    files_written,             \* number of files written
    \* ---- dex_detector.c ----
    hdr,                       \* the candidate header's memory
    hin,                       \* the validator's arguments
    hout,                      \* the validator's result, -1 before it ran
    \* ---- dex_detector.c: detection over a region ----
    dmem,                      \* the region's memory and size
    dpc,                       \* position in perform_comprehensive_dex_detection
    detection_result,          \* the DexDetectionResult the caller passed, and the return value
    dlog,                      \* the strategies invoked so far, with their results
    \* ---- main.c: execute_memory_dumping ----
    memory_regions,            \* the parsed regions with what a scan of each would meet
    rpc,                       \* position in execute_memory_dumping: pass and index
    package_name,              \* file_utils.c:14, what /proc/self/cmdline gives
    total_dumps_successful,    \* main.c:101
    processed_region_count,    \* main.c:102
    rlog,                      \* the regions handed to detection so far, in order
    \* ---- memory_scanner.c: parse_memory_regions ----
    maps_file,                 \* the lines of /proc/self/maps not yet read
    regions_array,             \* the array *regions_array points to
    region_count,              \* memory_scanner.c:50
    regions_capacity,          \* memory_scanner.c:51
    mpc,                       \* position in parse_memory_regions
    \* ---- sha1.c ----
    sha_ctx,                   \* the SHA1Context being fed
    sha_feed,                  \* the chunks still to feed, and the whole message
    sha_pc                     \* position of the incremental computation

accVars == <<alive, exit_code, disposition, signal_handlers_installed,
             signal_handler_stack, signal_handler_mutex, install_log,
             recovery_buffer_ready,
             signal_recovery_buffer, apc, areq, acall>>
regVars == <<dumped_files_registry, dumped_files_count, dumped_files_capacity,
             dump_registry_mutex, reg_log, reg_last, reg_pre>>
wrkVars == <<wpc, wjob, wop, wret, wdone, out_dir, files_written>>
hdrVars == <<hdr, hin, hout>>
detVars == <<dmem, dpc, detection_result, dlog>>
runVars == <<memory_regions, rpc, package_name, total_dumps_successful, processed_region_count, rlog>>
mapVars == <<maps_file, regions_array, region_count, regions_capacity, mpc>>
shaVars == <<sha_ctx, sha_feed, sha_pc>>
\* The components after the header validator.
restVars == <<detVars, runVars, mapVars, shaVars>>
vars == <<accVars, regVars, wrkVars, hdrVars, restVars>>

NULL == 0

(***************************************************************************)
(* Fault-barrier accessor: signal_handler.c                                *)
(***************************************************************************)

\* Number of threads calling read_memory_safely concurrently.
NThreads == 2
Threads == 1..NThreads

\* Width of uintptr_t in the model (64 in the build): addresses are 0..UINTPTR_MAX.
AddrBits == 16
UINTPTR_MAX == 2^AddrBits - 1

\* 0x1000: the low-address guard of signal_handler.c:115 and :160; also the page size.
NullGuard == 4096
PageSize == NullGuard

SIGBUS == 7
SIGSEGV == 11
Signals == {SIGSEGV, SIGBUS}

TopPage == UINTPTR_MAX \div PageSize

\* The address space the calls run against. Pages 2, 3, 5 and the top page are
\* mapped readable; page 6 is a file mapping past the end of its file (an access
\* raises SIGBUS); every other page, page 0 included, is unmapped (SIGSEGV).
PageKind(p) ==
    CASE p \in {2, 3, 5} -> "r"
      [] p = TopPage     -> "r"
      [] p = 6           -> "bus"
      [] OTHER           -> "none"

Readable(a) == PageKind(a \div PageSize) = "r"
FaultSignal(a) == IF PageKind(a \div PageSize) = "bus" THEN SIGBUS ELSE SIGSEGV

\* Number of bytes memcpy copies from a before it faults (n when none does).
RECURSIVE ReadablePrefix(_, _)
ReadablePrefix(a, n) ==
    IF n = 0 THEN 0
    ELSE IF ~Readable(a) THEN 0
    ELSE LET room == PageSize - (a % PageSize)
             step == IF room < n THEN room ELSE n
         IN  step + (IF step < n /\ Readable(a + step)
                     THEN ReadablePrefix(a + step, n - step) ELSE 0)

RangeReadable(a, n) == ReadablePrefix(a, n) = n

\* The calls the threads make: source address, destination, size.
Buf == 1
Requests ==
    { [src |-> NULL,                 dst |-> Buf,  size |-> 4],
      [src |-> 2 * PageSize,         dst |-> NULL, size |-> 4],
      [src |-> 2 * PageSize,         dst |-> Buf,  size |-> 0],
      [src |-> NullGuard - 1,        dst |-> Buf,  size |-> 4],
      [src |-> UINTPTR_MAX - 3,      dst |-> Buf,  size |-> 4],
      [src |-> UINTPTR_MAX - 4,      dst |-> Buf,  size |-> 4],
      [src |-> PageSize,             dst |-> Buf,  size |-> 1],
      [src |-> 6 * PageSize - 4,     dst |-> Buf,  size |-> 8],
      [src |-> 4 * PageSize - 8,     dst |-> Buf,  size |-> PageSize + 16] }

NoRequest == [src |-> NULL, dst |-> NULL, size |-> 0]

\* __thread: the slot of thread t's recovery_buffer_ready and signal_recovery_buffer.
TlsSlotShared(t) == 1
TlsSlot(t) == t

\* What a call did so far: whether it returned (ret: -1 not yet), trapped, armed a
\* checkpoint (and at which sigsetjmp last), dereferenced the source, and how
\* many bytes it copied.
NoCall == [called |-> FALSE, ret |-> -1, trapped |-> FALSE, armed |-> FALSE,
           site |-> "none", deref |-> FALSE, copied |-> 0, sig |-> 0]

NoStack == [ss_sp |-> NULL, ss_size |-> 0, allocs |-> 0, frees |-> 0, registered |-> FALSE]

\* validate_memory_access, lines 110-117: the checks made before the checkpoint
\* is set up. TRUE when they return 0.
ValidateRejects(address_value, memory_size) ==
    \/ address_value = NULL
    \/ address_value < NullGuard
    \/ address_value > UINTPTR_MAX - memory_size

\* read_memory_safely, lines 155-166: its own argument checks, then those of
\* validate_memory_access. TRUE when the call returns 0 before any checkpoint
\* is set up.
RejectsArguments(r) ==
    \/ r.src = NULL \/ r.dst = NULL \/ r.size = 0
    \/ r.src < NullGuard
    \/ ValidateRejects(r.src, r.size)

\* read_memory_safely entered by thread t: the argument checks; on rejection it
\* returns 0, else validate_memory_access goes on to sigsetjmp.
ReadMemorySafely(t, r) ==
    /\ UNCHANGED <<regVars, wrkVars, hdrVars, restVars>>
    /\ alive /\ apc[t] = "idle"
    /\ areq' = [areq EXCEPT ![t] = r]
    /\ IF RejectsArguments(r)
       THEN /\ apc' = [apc EXCEPT ![t] = "idle"]
            /\ acall' = [acall EXCEPT ![t] = [NoCall EXCEPT !.called = TRUE, !.ret = 0]]
       ELSE /\ apc' = [apc EXCEPT ![t] = "v_setjmp"]
            /\ acall' = [acall EXCEPT ![t] = [NoCall EXCEPT !.called = TRUE]]
    /\ UNCHANGED <<alive, exit_code, disposition, signal_handlers_installed,
                   signal_handler_stack, install_log, signal_handler_mutex,
                   recovery_buffer_ready, signal_recovery_buffer>>

\* sigsetjmp(...) == 0 followed by recovery_buffer_ready = 1, in
\* validate_memory_access (lines 120-121) and read_memory_safely (172-173).
ArmCheckpoint(t) ==
    /\ UNCHANGED <<regVars, wrkVars, hdrVars, restVars>>
    /\ alive /\ apc[t] \in {"v_setjmp", "c_setjmp"}
    /\ signal_recovery_buffer' =
         [signal_recovery_buffer EXCEPT
            ![TlsSlot(t)] = IF apc[t] = "v_setjmp" THEN "validate" ELSE "copy"]
    /\ recovery_buffer_ready' = [recovery_buffer_ready EXCEPT ![TlsSlot(t)] = 1]
    /\ apc' = [apc EXCEPT ![t] = IF apc[t] = "v_setjmp" THEN "v_probe_first" ELSE "c_memcpy"]
    /\ acall' = [acall EXCEPT ![t].armed = TRUE,
                              ![t].site = IF apc[t] = "v_setjmp" THEN "validate" ELSE "copy"]
    /\ UNCHANGED <<alive, exit_code, disposition, signal_handlers_installed,
                   signal_handler_stack, install_log, signal_handler_mutex, areq>>

\* The kernel's delivery of signal sig to the faulting thread t, n bytes into
\* its access: the installed handler is entered, or, under the default
\* disposition, the process is killed by the signal.
Trap(t, sig, n) ==
    /\ acall' = [acall EXCEPT ![t].trapped = TRUE, ![t].sig = sig,
                              ![t].deref = TRUE, ![t].copied = n]
    /\ IF disposition[sig] = "handler"
       THEN /\ apc' = [apc EXCEPT ![t] = "handler"]
            /\ UNCHANGED <<alive, exit_code>>
       ELSE /\ alive' = FALSE
            /\ exit_code' = sig
            /\ UNCHANGED apc

\* *((volatile char*)memory_address), line 124.
ProbeFirst(t) ==
    /\ UNCHANGED <<regVars, wrkVars, hdrVars, restVars>>
    /\ alive /\ apc[t] = "v_probe_first"
    /\ IF Readable(areq[t].src)
       THEN /\ apc' = [apc EXCEPT ![t] = "v_probe_last"]
            /\ acall' = [acall EXCEPT ![t].deref = TRUE]
            /\ UNCHANGED <<alive, exit_code>>
       ELSE Trap(t, FaultSignal(areq[t].src), 0)
    /\ UNCHANGED <<disposition, signal_handlers_installed, signal_handler_stack, install_log,
                   signal_handler_mutex, recovery_buffer_ready,
                   signal_recovery_buffer, areq>>

\* Lines 127-132: the probe of the last byte when memory_size > 1, then
\* recovery_buffer_ready = 0 and return 1 to read_memory_safely, which goes on
\* to install_memory_signal_handlers.
ProbeLast(t) ==
    /\ UNCHANGED <<regVars, wrkVars, hdrVars, restVars>>
    /\ alive /\ apc[t] = "v_probe_last"
    /\ LET last == areq[t].src + areq[t].size - 1
       IN  IF areq[t].size > 1 /\ ~Readable(last)
           THEN /\ Trap(t, FaultSignal(last), 0)
                /\ UNCHANGED recovery_buffer_ready
           ELSE /\ recovery_buffer_ready' = [recovery_buffer_ready EXCEPT ![TlsSlot(t)] = 0]
                /\ apc' = [apc EXCEPT ![t] = "i_lock"]
                /\ UNCHANGED <<alive, exit_code, acall>>
    /\ UNCHANGED <<disposition, signal_handlers_installed, signal_handler_stack, install_log,
                   signal_handler_mutex, signal_recovery_buffer, areq>>

\* install_memory_signal_handlers, lines 42-94, the part run under
\* signal_handler_mutex: the state after it, given whether malloc and
\* sigaltstack succeed. S is [installed, stack, disp].
InstallBody(S, t, mallocOk, altOk) ==
    IF S.installed # 0 THEN S
    ELSE LET st0 == S.stack
             st1 == IF st0.ss_sp # NULL THEN st0
                    ELSE IF ~mallocOk THEN st0
                    ELSE IF altOk
                         THEN [st0 EXCEPT !.ss_sp = 1, !.ss_size = 1,
                                          !.allocs = @ + 1, !.registered = TRUE]
                         ELSE [st0 EXCEPT !.ss_sp = NULL, !.ss_size = 1,
                                          !.allocs = @ + 1, !.frees = @ + 1]
         IN  [installed |-> 1,
              stack     |-> st1,
              disp      |-> [s \in Signals |-> "handler"]]

\* pthread_mutex_lock(&signal_handler_mutex), line 39.
InstallLock(t) ==
    /\ UNCHANGED <<regVars, wrkVars, hdrVars, restVars>>
    /\ alive /\ apc[t] = "i_lock"
    /\ signal_handler_mutex = 0
    /\ signal_handler_mutex' = t
    /\ apc' = [apc EXCEPT ![t] = "i_body"]
    /\ UNCHANGED <<alive, exit_code, disposition, signal_handlers_installed,
                   signal_handler_stack, install_log, recovery_buffer_ready,
                   signal_recovery_buffer, areq, acall>>

InstallHandlers(t) ==
    /\ UNCHANGED <<regVars, wrkVars, hdrVars, restVars>>
    /\ alive /\ apc[t] = "i_body"
    /\ \E mallocOk \in BOOLEAN, altOk \in BOOLEAN :
         LET S == InstallBody([installed |-> signal_handlers_installed,
                               stack |-> signal_handler_stack,
                               disp |-> disposition], t, mallocOk, altOk)
         IN  /\ signal_handlers_installed' = S.installed
             /\ signal_handler_stack' = S.stack
             /\ disposition' = S.disp
    /\ apc' = [apc EXCEPT ![t] = "i_unlock"]
    /\ UNCHANGED <<alive, exit_code, signal_handler_mutex, install_log,
                   recovery_buffer_ready, signal_recovery_buffer, areq, acall>>

\* pthread_mutex_unlock(&signal_handler_mutex), line 96, and the return to
\* read_memory_safely, line 169.
InstallUnlock(t) ==
    /\ UNCHANGED <<regVars, wrkVars, hdrVars, restVars>>
    /\ alive /\ apc[t] = "i_unlock"
    /\ signal_handler_mutex' = 0
    /\ apc' = [apc EXCEPT ![t] = "c_setjmp"]
    /\ UNCHANGED <<alive, exit_code, disposition, signal_handlers_installed,
                   signal_handler_stack, install_log, recovery_buffer_ready,
                   signal_recovery_buffer, areq, acall>>

\* memcpy(destination_buffer, source_address, read_size), line 176, then
\* recovery_buffer_ready = 0 and return 1 (lines 178-179).
Memcpy(t) ==
    /\ UNCHANGED <<regVars, wrkVars, hdrVars, restVars>>
    /\ alive /\ apc[t] = "c_memcpy"
    /\ LET n == ReadablePrefix(areq[t].src, areq[t].size)
       IN  IF n = areq[t].size
           THEN /\ recovery_buffer_ready' = [recovery_buffer_ready EXCEPT ![TlsSlot(t)] = 0]
                /\ apc' = [apc EXCEPT ![t] = "idle"]
                /\ acall' = [acall EXCEPT ![t].copied = n, ![t].deref = TRUE, ![t].ret = 1]
                /\ UNCHANGED <<alive, exit_code>>
           ELSE /\ Trap(t, FaultSignal(areq[t].src + n), n)
                /\ UNCHANGED recovery_buffer_ready
    /\ UNCHANGED <<disposition, signal_handlers_installed, signal_handler_stack, install_log,
                   signal_handler_mutex, signal_recovery_buffer, areq>>

\* memory_access_signal_handler, lines 21-30, on the faulting thread: what it
\* does given that thread's recovery_buffer_ready.
HandlerKeepsFlag(ready, signal_number) ==
    IF ready # 0
    THEN [ready |-> ready, jump |-> TRUE, exit |-> -1]
    ELSE [ready |-> ready, jump |-> FALSE, exit |-> 128 + signal_number]

HandlerExitsWithTheSignalNumber(ready, signal_number) ==
    IF ready # 0
    THEN [ready |-> 0, jump |-> TRUE, exit |-> -1]
    ELSE [ready |-> ready, jump |-> FALSE, exit |-> signal_number]

memory_access_signal_handler(ready, signal_number) ==
    IF ready # 0
    THEN [ready |-> 0, jump |-> TRUE, exit |-> -1]
    ELSE [ready |-> ready, jump |-> FALSE, exit |-> 128 + signal_number]

\* The handler running on thread t: siglongjmp to the thread's recovery point,
\* or _exit.
Handler(t) ==
    /\ UNCHANGED <<regVars, wrkVars, hdrVars, restVars>>
    /\ alive /\ apc[t] = "handler"
    /\ LET h == memory_access_signal_handler(recovery_buffer_ready[TlsSlot(t)], acall[t].sig)
           target == signal_recovery_buffer[TlsSlot(t)]
       IN  /\ recovery_buffer_ready' = [recovery_buffer_ready EXCEPT ![TlsSlot(t)] = h.ready]
           /\ IF h.jump
              THEN \* control resumes in the frame that called sigsetjmp
                   /\ apc' = [apc EXCEPT ![t] =
                                IF target = "validate" THEN "v_recover" ELSE "c_recover"]
                   /\ UNCHANGED <<alive, exit_code>>
              ELSE /\ alive' = FALSE
                   /\ exit_code' = h.exit
                   /\ UNCHANGED apc
    /\ UNCHANGED <<disposition, signal_handlers_installed, signal_handler_stack, install_log,
                   signal_handler_mutex, signal_recovery_buffer, areq, acall>>

\* The else branches of sigsetjmp, lines 133-137 and 180-184:
\* recovery_buffer_ready = 0 and return 0 (read_memory_safely returns 0 when
\* validate_memory_access does, line 165).
Recover(t) ==
    /\ UNCHANGED <<regVars, wrkVars, hdrVars, restVars>>
    /\ alive /\ apc[t] \in {"v_recover", "c_recover"}
    /\ recovery_buffer_ready' = [recovery_buffer_ready EXCEPT ![TlsSlot(t)] = 0]
    /\ apc' = [apc EXCEPT ![t] = "idle"]
    /\ acall' = [acall EXCEPT ![t].ret = 0]
    /\ UNCHANGED <<alive, exit_code, disposition, signal_handlers_installed,
                   signal_handler_stack, install_log, signal_handler_mutex,
                   signal_recovery_buffer, areq>>

NextAccess ==
    \/ \E t \in Threads, r \in Requests : ReadMemorySafely(t, r)
    \/ \E t \in Threads : ArmCheckpoint(t)
    \/ \E t \in Threads : ProbeFirst(t)
    \/ \E t \in Threads : ProbeLast(t)
    \/ \E t \in Threads : InstallLock(t)
    \/ \E t \in Threads : InstallHandlers(t)
    \/ \E t \in Threads : InstallUnlock(t)
    \/ \E t \in Threads : Memcpy(t)
    \/ \E t \in Threads : Handler(t)
    \/ \E t \in Threads : Recover(t)

\* The state at process start: no handler installed, no checkpoint armed, the
\* registry empty (registry_manager.c:4-7), no worker started.
InitAccess ==
    /\ alive = TRUE
    /\ exit_code = -1
    /\ disposition = [s \in Signals |-> "default"]
    /\ signal_handlers_installed = 0
    /\ signal_handler_stack = NoStack
    /\ signal_handler_mutex = 0
    /\ install_log = <<>>
    /\ recovery_buffer_ready = [s \in Threads |-> 0]
    /\ signal_recovery_buffer = [s \in Threads |-> "unset"]
    /\ apc = [t \in Threads |-> "idle"]
    /\ areq = [t \in Threads |-> NoRequest]
    /\ acall = [t \in Threads |-> NoCall]
    /\ dumped_files_registry = [null |-> TRUE, slot |-> <<>>]
    /\ dumped_files_count = 0
    /\ dumped_files_capacity = 0
    /\ dump_registry_mutex = 0
    /\ reg_log = <<>>
    /\ reg_last = 0
    /\ reg_pre = 0
    /\ wpc = 0 /\ wjob = 0 /\ wop = 0 /\ wret = 0 /\ wdone = 0
    /\ out_dir = {} /\ files_written = 0
    /\ hdr = 0 /\ hin = 0 /\ hout = -1
    /\ dmem = 0 /\ dpc = 0 /\ detection_result = 0 /\ dlog = <<>>
    /\ memory_regions = <<>> /\ rpc = 0 /\ package_name = <<>>
    /\ total_dumps_successful = 0
    /\ processed_region_count = 0 /\ rlog = <<>>
    /\ maps_file = <<>> /\ regions_array = 0 /\ region_count = 0
    /\ regions_capacity = 0 /\ mpc = 0
    /\ sha_ctx = 0 /\ sha_feed = 0 /\ sha_pc = 0

SpecAccess == InitAccess /\ [][NextAccess]_vars

(***************************************************************************)
(* Claims about the accessor, checked under SpecAccess                     *)
(***************************************************************************)

\* The source range of request r is not wholly mapped readable and r.size > 0.
UnreadableSource(r) == r.size > 0 /\ ~RangeReadable(r.src, r.size)

\* C1: every call of read_memory_safely whose source range is not readable and
\* whose size is positive returns 0, and the process is not terminated: it stays
\* alive in every state, so further calls can be issued. (The very first call of
\* the process is one of the calls.)
C1_UnreadableSourceReturnsZeroProcessAlive ==
    \A t \in Threads :
        (acall[t].called /\ UnreadableSource(areq[t]))
            => /\ alive
               /\ (apc[t] = "idle" => acall[t].ret = 0)

\* Positions at which a thread is inside a probe read or the memcpy (the
\* handler runs inside the faulting access).
InsideAccess == {"v_probe_first", "v_probe_last", "c_memcpy", "handler"}
\* Positions at which validate_memory_access or read_memory_safely has returned.
Returned == {"idle", "i_lock", "i_body", "i_unlock", "c_setjmp"}

\* C2: whenever validate_memory_access or read_memory_safely has returned, on
\* any exit path, the calling thread's recovery_buffer_ready is 0; it is 1 only
\* while the thread is inside the probe reads or the memcpy.
C2_CheckpointDisarmedOnEveryReturn ==
    \A t \in Threads :
        /\ apc[t] \in Returned => recovery_buffer_ready[TlsSlot(t)] = 0
        /\ recovery_buffer_ready[TlsSlot(t)] = 1 => apc[t] \in InsideAccess

\* C2's case: one thread has returned 0 through the handler's siglongjmp, and
\* another has returned 1 after a complete copy.
C2_Witness ==
    \E t \in Threads, u \in Threads :
        /\ apc[t] = "idle" /\ acall[t].trapped /\ acall[t].ret = 0
        /\ apc[u] = "idle" /\ acall[u].ret = 1 /\ acall[u].armed

\* A thread's checkpoint slot, position and in-flight result.
PrivateState(t) ==
    <<recovery_buffer_ready[TlsSlot(t)], signal_recovery_buffer[TlsSlot(t)],
      apc[t], acall[t]>>

\* C3: in every step at most one thread's checkpoint flag, recovery buffer,
\* position and in-flight result change; and when the handler runs on thread a
\* it leaves every other thread's untouched and, if it resumes, resumes a at the
\* recovery point a itself set up last, with a's flag cleared.
C3_TrapTouchesOnlyTheFaultingThread ==
    [][ /\ \E a \in Threads :
              \A b \in Threads \ {a} : PrivateState(b)' = PrivateState(b)
        /\ \A a \in Threads :
              (apc[a] = "handler" /\ (apc'[a] # "handler" \/ alive' # alive))
                 => /\ \A b \in Threads \ {a} : PrivateState(b)' = PrivateState(b)
                    /\ alive' =>
                         /\ apc'[a] = (IF acall[a].site = "validate"
                                       THEN "v_recover" ELSE "c_recover")
                         /\ recovery_buffer_ready'[TlsSlot(a)] = 0
      ]_vars

\* C3's case: thread a has just been resumed at its recovery point by the
\* handler while thread b is inside an access with its own checkpoint armed.
C3_Witness ==
    \E a \in Threads, b \in Threads :
        /\ a # b
        /\ apc[a] \in {"v_recover", "c_recover"}
        /\ apc[b] \in {"v_probe_first", "v_probe_last", "c_memcpy"}
        /\ recovery_buffer_ready[TlsSlot(b)] = 1
        /\ recovery_buffer_ready[TlsSlot(a)] = 0

\* The requests the claim says are refused: source NULL, destination NULL,
\* source below 0x1000, address + size past UINTPTR_MAX, size 0.
ClaimedRefused(r) ==
    \/ r.src = NULL \/ r.dst = NULL
    \/ r.src < 4096
    \/ r.src + r.size > UINTPTR_MAX
    \/ r.size = 0

\* C4: read_memory_safely returns 1 only after copying all read_size bytes with
\* no trap; a refused request returns 0 with the source never dereferenced and
\* the checkpoint never armed; and a call in which a trap occurs returns 0 (so
\* the process is still there for it to return).
C4_ReadResultContract ==
    \A t \in Threads :
        acall[t].called =>
            /\ acall[t].ret = 1 => (acall[t].copied = areq[t].size /\ ~acall[t].trapped)
            /\ ClaimedRefused(areq[t]) =>
                  (acall[t].ret = 0 /\ ~acall[t].armed /\ ~acall[t].deref)
            /\ acall[t].trapped => (alive /\ (apc[t] = "idle" => acall[t].ret = 0))

\* What is left of C4 for the calls that return: a trapped call that returns,
\* returns 0.
ReadResultContractOfReturningCalls ==
    \A t \in Threads :
        acall[t].called =>
            /\ acall[t].ret = 1 => (acall[t].copied = areq[t].size /\ ~acall[t].trapped)
            /\ ClaimedRefused(areq[t]) =>
                  (acall[t].ret = 0 /\ ~acall[t].armed /\ ~acall[t].deref)
            /\ (acall[t].trapped /\ apc[t] = "idle") => acall[t].ret = 0

(***************************************************************************)
(* Dedup registry: registry_manager.c, and its cleanup in main.c           *)
(***************************************************************************)

\* MAX_DUMPED_FILES (config.h:29) is 512 in the build; the model keeps the array
\* this long.
MAX_DUMPED_FILES == 3

\* The most entries one caller registers between two cleanups.
MaxRegs == 5

\* Backing inodes of regions (0: anonymous) and payload digests.
Inodes == {0, 5}
Digests == {1, 2}

\* A DumpedFileInfo as far as the registry reads it back: dump_timestamp and
\* file_path are stored with it and read by no registry function.
Entries == [inode_number : Inodes, sha1_digest : Digests]

\* The content of a slot that was allocated and never written.
Uninit == [inode_number |-> -1, sha1_digest |-> -1]

Slots == 0..(MAX_DUMPED_FILES - 1)

\* The registry's three globals as one value.
Registry == [registry |-> dumped_files_registry,
             count    |-> dumped_files_count,
             capacity |-> dumped_files_capacity]

\* dumped_files_registry: whether the pointer is NULL, and the slots it points to.
NullArray == [null |-> TRUE, slot |-> <<>>]

EmptyRegistry == [registry |-> NullArray, count |-> 0, capacity |-> 0]

\* compare_sha1_digests: byte-for-byte equality.
compare_sha1_digests(d1, d2) == IF d1 = d2 THEN 1 ELSE 0

\* is_file_already_dumped, lines 21-30: the loop from index i on.
RECURSIVE InodeScan(_, _, _)
InodeScan(S, file_inode, i) ==
    IF i >= S.count THEN 0
    ELSE IF S.registry.slot[i].inode_number = file_inode THEN 1
    ELSE InodeScan(S, file_inode, i + 1)

is_file_already_dumped(S, file_inode) == InodeScan(S, file_inode, 0)

\* is_checksum_already_dumped, lines 45-55: the loop from index i up to
\* (excluding) index n.
RECURSIVE DigestScan(_, _, _, _)
DigestScan(S, sha1_digest, i, n) ==
    IF i >= n THEN 0
    ELSE IF compare_sha1_digests(S.registry.slot[i].sha1_digest, sha1_digest) = 1 THEN 1
    ELSE DigestScan(S, sha1_digest, i + 1, n)

DigestScanMissesNewest(S) == S.count - 1
DigestScanLimit(S) == S.count

is_checksum_already_dumped(S, sha1_digest) ==
    DigestScan(S, sha1_digest, 0, DigestScanLimit(S))

\* The memmove of lines 75-76 without the count assignment of line 77.
EvictKeepsTheCount(S) ==
    [S EXCEPT !.registry.slot = [i \in Slots |->
                               IF i < MAX_DUMPED_FILES - 1 THEN S.registry.slot[i + 1]
                               ELSE S.registry.slot[i]]]

\* Lines 73-79: memmove of slots 1..MAX-1 down by one, count = MAX - 1.
EvictWithoutShift(S) == [S EXCEPT !.count = MAX_DUMPED_FILES - 1]
EvictOldest(S) ==
    [S EXCEPT !.registry.slot = [i \in Slots |->
                               IF i < MAX_DUMPED_FILES - 1 THEN S.registry.slot[i + 1]
                               ELSE S.registry.slot[i]],
              !.count = MAX_DUMPED_FILES - 1]

\* Line 82: whether the storage is grown.
NeedsGrowthAlways(S) == S.capacity <= MAX_DUMPED_FILES
NeedsGrowth(S) == S.capacity < MAX_DUMPED_FILES

\* Lines 83-88: a successful realloc to MAX_DUMPED_FILES slots keeps the old
\* slots; the new ones hold nothing yet.
Grow(S) ==
    [S EXCEPT !.registry = [null |-> FALSE,
                            slot |-> [i \in Slots |->
                                        IF ~S.registry.null /\ i < S.capacity
                                        THEN S.registry.slot[i] ELSE Uninit]],
              !.capacity = MAX_DUMPED_FILES]

\* Lines 97-107: the new entry at index count, then count++.
StoreEntry(S, file_inode, sha1_digest) ==
    [S EXCEPT !.registry.slot[S.count] =
                               [inode_number |-> file_inode, sha1_digest |-> sha1_digest],
              !.count = S.count + 1]

\* register_dumped_file_with_checksum, lines 70-115, between lock and return:
\* the registry after it, whether the entry was stored, whether realloc failed,
\* and whether the path taken unlocked the mutex.
register_dumped_file_with_checksum(S, file_inode, sha1_digest, reallocOk) ==
    LET S1 == IF S.count >= MAX_DUMPED_FILES THEN EvictOldest(S) ELSE S
    IN  IF NeedsGrowth(S1) /\ ~reallocOk
        THEN [S |-> S1, stored |-> FALSE, alloc_failed |-> TRUE, unlocked |-> TRUE]
        ELSE LET S2 == IF NeedsGrowth(S1) THEN Grow(S1) ELSE S1
             IN  [S |-> StoreEntry(S2, file_inode, sha1_digest), stored |-> TRUE,
                  alloc_failed |-> FALSE, unlocked |-> TRUE]

\* dumping_thread_function, main.c lines 187-192, between lock and unlock.
CleanupRegistry(S) == IF ~S.registry.null THEN EmptyRegistry ELSE S

\* The one caller of SpecRegistry.
Caller == 1

NoCallYet == [op |-> "none", inode |-> -1, digest |-> -1, ret |-> -1,
              stored |-> FALSE, alloc_failed |-> FALSE]

\* One whole call of register_dumped_file_with_checksum: lock, body, unlock.
CallRegister(file_inode, sha1_digest, reallocOk) ==
    /\ UNCHANGED <<accVars, wrkVars, hdrVars, restVars>>
    /\ dump_registry_mutex = 0
    /\ Len(reg_log) < MaxRegs
    /\ LET r == register_dumped_file_with_checksum(Registry, file_inode, sha1_digest,
                                                   reallocOk)
       IN  /\ dumped_files_registry' = r.S.registry
           /\ dumped_files_count' = r.S.count
           /\ dumped_files_capacity' = r.S.capacity
           /\ dump_registry_mutex' = IF r.unlocked THEN 0 ELSE Caller
           /\ reg_log' = IF r.stored
                         THEN Append(reg_log, [inode_number |-> file_inode,
                                               sha1_digest |-> sha1_digest])
                         ELSE reg_log
           /\ reg_last' = [op |-> "register", inode |-> file_inode,
                           digest |-> sha1_digest, ret |-> -1, stored |-> r.stored,
                           alloc_failed |-> r.alloc_failed]
           /\ reg_pre' = Registry

\* One whole call of is_file_already_dumped: both return paths unlock first
\* (lines 24 and 29).
CallIsFileAlreadyDumped(file_inode) ==
    /\ UNCHANGED <<accVars, wrkVars, hdrVars, restVars>>
    /\ dump_registry_mutex = 0
    /\ reg_last' = [NoCallYet EXCEPT !.op = "lookup_inode", !.inode = file_inode,
                                     !.ret = is_file_already_dumped(Registry, file_inode)]
    /\ reg_pre' = Registry
    /\ UNCHANGED <<dumped_files_registry, dumped_files_count, dumped_files_capacity,
                   dump_registry_mutex, reg_log>>

\* One whole call of is_checksum_already_dumped (unlocks at lines 48 and 54).
CallIsChecksumAlreadyDumped(sha1_digest) ==
    /\ UNCHANGED <<accVars, wrkVars, hdrVars, restVars>>
    /\ dump_registry_mutex = 0
    /\ reg_last' = [NoCallYet EXCEPT !.op = "lookup_digest", !.digest = sha1_digest,
                                     !.ret = is_checksum_already_dumped(Registry, sha1_digest)]
    /\ reg_pre' = Registry
    /\ UNCHANGED <<dumped_files_registry, dumped_files_count, dumped_files_capacity,
                   dump_registry_mutex, reg_log>>

\* The end-of-run cleanup, main.c lines 186-193.
CallCleanup ==
    /\ UNCHANGED <<accVars, wrkVars, hdrVars, restVars>>
    /\ dump_registry_mutex = 0
    /\ LET S == CleanupRegistry(Registry)
       IN  /\ dumped_files_registry' = S.registry
           /\ dumped_files_count' = S.count
           /\ dumped_files_capacity' = S.capacity
    /\ reg_log' = <<>>
    /\ reg_last' = [NoCallYet EXCEPT !.op = "cleanup"]
    /\ reg_pre' = Registry
    /\ UNCHANGED dump_registry_mutex

NextRegistry ==
    \/ \E i \in Inodes, d \in Digests, ok \in BOOLEAN : CallRegister(i, d, ok)
    \/ \E i \in Inodes : CallIsFileAlreadyDumped(i)
    \/ \E d \in Digests : CallIsChecksumAlreadyDumped(d)
    \/ CallCleanup

\* Process start: the registry globals as registry_manager.c:4-7 initialises them.
InitRegistry ==
    /\ alive = TRUE
    /\ exit_code = -1
    /\ disposition = [s \in Signals |-> "default"]
    /\ signal_handlers_installed = 0
    /\ signal_handler_stack = NoStack
    /\ signal_handler_mutex = 0
    /\ install_log = <<>>
    /\ recovery_buffer_ready = [s \in Threads |-> 0]
    /\ signal_recovery_buffer = [s \in Threads |-> "unset"]
    /\ apc = [t \in Threads |-> "idle"]
    /\ areq = [t \in Threads |-> NoRequest]
    /\ acall = [t \in Threads |-> NoCall]
    /\ dumped_files_registry = NullArray
    /\ dumped_files_count = 0
    /\ dumped_files_capacity = 0
    /\ dump_registry_mutex = 0
    /\ reg_log = <<>>
    /\ reg_last = NoCallYet
    /\ reg_pre = EmptyRegistry
    /\ wpc = 0 /\ wjob = 0 /\ wop = 0 /\ wret = 0 /\ wdone = 0
    /\ out_dir = {} /\ files_written = 0
    /\ hdr = 0 /\ hin = 0 /\ hout = -1
    /\ dmem = 0 /\ dpc = 0 /\ detection_result = 0 /\ dlog = <<>>
    /\ memory_regions = <<>> /\ rpc = 0 /\ package_name = <<>>
    /\ total_dumps_successful = 0
    /\ processed_region_count = 0 /\ rlog = <<>>
    /\ maps_file = <<>> /\ regions_array = 0 /\ region_count = 0
    /\ regions_capacity = 0 /\ mpc = 0
    /\ sha_ctx = 0 /\ sha_feed = 0 /\ sha_pc = 0

SpecRegistry == InitRegistry /\ [][NextRegistry]_vars

(***************************************************************************)
(* Claims about the registry, checked under SpecRegistry                   *)
(***************************************************************************)

\* The entries the registry retains, oldest first: slots 0..count-1.
Retained(S) == [k \in 1..S.count |-> S.registry.slot[k - 1]]

\* The last n elements of sequence q (all of q when it has fewer).
LastN(q, n) == IF Len(q) <= n THEN q ELSE SubSeq(q, Len(q) - n + 1, Len(q))

Min(a, b) == IF a < b THEN a ELSE b

\* C5: after N registrations (none failing to allocate) the registry holds
\* exactly min(N, MAX_DUMPED_FILES) entries, the most recently registered ones in
\* registration order; a call on a full registry evicts exactly the oldest entry;
\* and the entry just registered is present (the newest) when the call returns.
C5_RegistryKeepsTheMostRecent ==
    /\ dumped_files_count = Min(Len(reg_log), MAX_DUMPED_FILES)
    /\ Retained(Registry) = LastN(reg_log, MAX_DUMPED_FILES)
    /\ (reg_last.op = "register" /\ reg_last.stored) =>
          /\ dumped_files_count >= 1
          /\ dumped_files_registry.slot[dumped_files_count - 1] =
                [inode_number |-> reg_last.inode, sha1_digest |-> reg_last.digest]
          /\ reg_pre.count = MAX_DUMPED_FILES =>
                Retained(Registry) =
                    Append(Tail(Retained(reg_pre)),
                           [inode_number |-> reg_last.inode,
                            sha1_digest |-> reg_last.digest])
          /\ reg_pre.count < MAX_DUMPED_FILES =>
                Retained(Registry) =
                    Append(Retained(reg_pre),
                           [inode_number |-> reg_last.inode,
                            sha1_digest |-> reg_last.digest])

\* C5's case: more registrations than the bound, the last one just returned
\* after evicting from a full registry.
C5_Witness ==
    /\ Len(reg_log) > MAX_DUMPED_FILES + 1
    /\ reg_last.op = "register" /\ reg_last.stored
    /\ reg_pre.count = MAX_DUMPED_FILES

\* The keys of the entries that should be retained, from the registration log.
LoggedRetained == LastN(reg_log, MAX_DUMPED_FILES)
RetainedDigests == {LoggedRetained[k].sha1_digest : k \in 1..Len(LoggedRetained)}
RetainedInodes == {LoggedRetained[k].inode_number : k \in 1..Len(LoggedRetained)}

\* C6: in every reachable registry state is_checksum_already_dumped(d) is 1
\* exactly when a currently retained entry has digest d, and
\* is_file_already_dumped(i) is 1 exactly when a currently retained entry has
\* inode i: for every key, and for the lookup that was just made. A key whose
\* only entry was evicted is therefore absent.
C6_LookupsReflectTheRetainedSet ==
    /\ \A d \in Digests :
          (is_checksum_already_dumped(Registry, d) = 1) <=> (d \in RetainedDigests)
    /\ \A i \in Inodes :
          (is_file_already_dumped(Registry, i) = 1) <=> (i \in RetainedInodes)
    /\ reg_last.op = "lookup_digest" =>
          ((reg_last.ret = 1) <=> (reg_last.digest \in RetainedDigests))
    /\ reg_last.op = "lookup_inode" =>
          ((reg_last.ret = 1) <=> (reg_last.inode \in RetainedInodes))

\* C6's case: a digest that was registered, whose only entry has been evicted by
\* overflow, was just looked up and reported absent.
C6_Witness ==
    /\ reg_last.op = "lookup_digest" /\ reg_last.ret = 0
    /\ Len(reg_log) > MAX_DUMPED_FILES
    /\ \E k \in 1..(Len(reg_log) - MAX_DUMPED_FILES) :
          reg_log[k].sha1_digest = reg_last.digest

\* C7: a call of register_dumped_file_with_checksum in which growing the storage
\* fails leaves count, capacity and every slot as they were before the call, and
\* the mutex released.
C7_AllocationFailureIsANoOp ==
    (reg_last.op = "register" /\ reg_last.alloc_failed) =>
        /\ Registry = reg_pre
        /\ ~reg_last.stored
        /\ dump_registry_mutex = 0

\* C7's case: growing the storage failed in the call that just returned.
C7_Witness ==
    /\ reg_last.op = "register" /\ reg_last.alloc_failed
    /\ dumped_files_registry.null

(***************************************************************************)
(* Worker tasks: dump_memory_to_file (file_utils.c) and the end-of-run     *)
(* cleanup (main.c), each registry call as lock / body / unlock            *)
(***************************************************************************)

\* Number of worker tasks.
NWorkers == 2
Workers == 1..NWorkers

DEX_MIN_FILE_SIZE == 1024
DEX_MAX_FILE_SIZE == 52428800

\* EXCLUDED_SHA1_LIST (config.h:49-53), as digests.
ExcludedDigests == {9}
is_sha1_excluded(sha1_digest) == IF sha1_digest \in ExcludedDigests THEN 1 ELSE 0

\* compute_sha1_checksum of a payload: byte-identical payloads, and only those,
\* carry the same digest, so a payload is named by its digest.
\* The jobs handed to dump_memory_to_file: the region's inode, the payload's
\* digest and its size.
Jobs ==
    { [inode |-> 0, digest |-> 1, size |-> 2048],
      [inode |-> 5, digest |-> 1, size |-> 2048],
      [inode |-> 0, digest |-> 9, size |-> 2048],
      [inode |-> 0, digest |-> 2, size |-> DEX_MIN_FILE_SIZE - 1] }

NoJob == [inode |-> -1, digest |-> -1, size |-> 0]
NoOp == [op |-> "none", inode |-> -1, digest |-> -1]

\* pthread_mutex_lock(&dump_registry_mutex) returns once the mutex is free.
CanLockAlways(m) == TRUE
CanLock(m) == m = 0

\* Whether the path a registry call takes, given its result, unlocks the mutex
\* before it returns: registry_manager.c lines 24 and 29, 48 and 54, 91 and 115,
\* main.c line 193.
KeepsLockAfterDigestMiss(op, ret) == ~(op = "lookup_digest" /\ ret = 0)
UnlocksOnPath(op, ret) == TRUE

\* dump_memory_to_file returns result to the scanning loop; its frame is gone.
Return(w, result) ==
    /\ wpc' = [wpc EXCEPT ![w] = "idle"]
    /\ wdone' = [wdone EXCEPT ![w] = result]
    /\ wjob' = [wjob EXCEPT ![w] = NoJob]

\* dump_memory_to_file goes on to its next statement.
Goto(w, label) ==
    /\ wpc' = [wpc EXCEPT ![w] = label]
    /\ UNCHANGED <<wjob, wdone>>

\* dump_memory_to_file entered, lines 302-307: the inode check is made only for
\* a region with a backing inode.
DumpStart(w, job) ==
    /\ UNCHANGED <<accVars, hdrVars, restVars>>
    /\ wpc[w] = "idle"
    /\ wjob' = [wjob EXCEPT ![w] = job]
    /\ wdone' = [wdone EXCEPT ![w] = -1]
    /\ wret' = [wret EXCEPT ![w] = -1]
    /\ IF job.inode # 0
       THEN /\ wop' = [wop EXCEPT ![w] = [NoOp EXCEPT !.op = "lookup_inode",
                                                       !.inode = job.inode]]
            /\ wpc' = [wpc EXCEPT ![w] = "lock"]
       ELSE /\ wop' = [wop EXCEPT ![w] = NoOp]
            /\ wpc' = [wpc EXCEPT ![w] = "hash"]
    /\ UNCHANGED <<regVars, out_dir, files_written>>

\* The end of dumping_thread_function, main.c lines 185-193: the registry is
\* released under the mutex and the thread returns.
CleanupStart(w) ==
    /\ UNCHANGED <<accVars, hdrVars, restVars>>
    /\ wpc[w] = "idle"
    /\ wop' = [wop EXCEPT ![w] = [NoOp EXCEPT !.op = "cleanup"]]
    /\ wpc' = [wpc EXCEPT ![w] = "lock"]
    /\ wret' = [wret EXCEPT ![w] = -1]
    /\ UNCHANGED <<regVars, wjob, wdone, out_dir, files_written>>

\* pthread_mutex_lock at the head of every registry call.
Lock(w) ==
    /\ UNCHANGED <<accVars, hdrVars, restVars>>
    /\ wpc[w] = "lock"
    /\ CanLock(dump_registry_mutex)
    /\ dump_registry_mutex' = w
    /\ wpc' = [wpc EXCEPT ![w] = "body"]
    /\ UNCHANGED <<dumped_files_registry, dumped_files_count, dumped_files_capacity,
                   reg_log, reg_last, reg_pre, wjob, wop, wret, wdone, out_dir,
                   files_written>>

\* The reads and writes of the registry made by the call the worker is inside.
Body(w) ==
    /\ UNCHANGED <<accVars, hdrVars, restVars>>
    /\ wpc[w] = "body"
    /\ wpc' = [wpc EXCEPT ![w] = "unlock"]
    /\ \/ /\ wop[w].op = "lookup_inode"
          /\ wret' = [wret EXCEPT ![w] = is_file_already_dumped(Registry, wop[w].inode)]
          /\ UNCHANGED <<dumped_files_registry, dumped_files_count, dumped_files_capacity>>
       \/ /\ wop[w].op = "lookup_digest"
          /\ wret' = [wret EXCEPT ![w] = is_checksum_already_dumped(Registry, wop[w].digest)]
          /\ UNCHANGED <<dumped_files_registry, dumped_files_count, dumped_files_capacity>>
       \/ /\ wop[w].op = "register"
          /\ \E reallocOk \in BOOLEAN :
               LET r == register_dumped_file_with_checksum(Registry, wop[w].inode,
                                                           wop[w].digest, reallocOk)
               IN  /\ dumped_files_registry' = r.S.registry
                   /\ dumped_files_count' = r.S.count
                   /\ dumped_files_capacity' = r.S.capacity
                   /\ wret' = [wret EXCEPT ![w] = IF r.stored THEN 1 ELSE 0]
       \/ /\ wop[w].op = "cleanup"
          /\ LET S == CleanupRegistry(Registry)
             IN  /\ dumped_files_registry' = S.registry
                 /\ dumped_files_count' = S.count
                 /\ dumped_files_capacity' = S.capacity
          /\ wret' = [wret EXCEPT ![w] = -1]
    /\ UNCHANGED <<dump_registry_mutex, reg_log, reg_last, reg_pre, wjob, wop, wdone,
                   out_dir, files_written>>

\* pthread_mutex_unlock and the return of the registry call to its caller:
\* dump_memory_to_file returns 0 when a lookup found the key (lines 303-306 and
\* 326-329), returns 1 after registering (lines 360-373), and goes on otherwise.
Unlock(w) ==
    /\ UNCHANGED <<accVars, hdrVars, restVars>>
    /\ wpc[w] = "unlock"
    /\ dump_registry_mutex' =
          IF UnlocksOnPath(wop[w].op, wret[w]) THEN 0 ELSE dump_registry_mutex
    /\ wop' = [wop EXCEPT ![w] = NoOp]
    /\ wret' = [wret EXCEPT ![w] = -1]
    /\ CASE wop[w].op = "lookup_inode" ->
              IF wret[w] = 1 THEN Return(w, 0) ELSE Goto(w, "hash")
         [] wop[w].op = "lookup_digest" ->
              IF wret[w] = 1 THEN Return(w, 0) ELSE Goto(w, "dircheck")
         [] wop[w].op = "register" -> Return(w, 1)
         [] OTHER -> /\ wpc' = [wpc EXCEPT ![w] = "finished"]
                     /\ UNCHANGED <<wjob, wdone>>
    /\ UNCHANGED <<dumped_files_registry, dumped_files_count, dumped_files_capacity,
                   reg_log, reg_last, reg_pre, out_dir, files_written>>

\* Lines 309-323: the size check, compute_sha1_checksum and the exclusion list.
Hash(w) ==
    /\ UNCHANGED <<accVars, hdrVars, restVars>>
    /\ wpc[w] = "hash"
    /\ IF \/ wjob[w].size < DEX_MIN_FILE_SIZE \/ wjob[w].size > DEX_MAX_FILE_SIZE
          \/ is_sha1_excluded(wjob[w].digest) = 1
       THEN /\ Return(w, 0)
            /\ UNCHANGED wop
       ELSE /\ wop' = [wop EXCEPT ![w] = [NoOp EXCEPT !.op = "lookup_digest",
                                                       !.digest = wjob[w].digest]]
            /\ Goto(w, "lock")
    /\ UNCHANGED <<regVars, wret, out_dir, files_written>>

\* Lines 331-335: is_sha1_duplicate_in_directory finds a file with this digest.
DirCheck(w) ==
    /\ UNCHANGED <<accVars, hdrVars, restVars>>
    /\ wpc[w] = "dircheck"
    /\ IF wjob[w].digest \in out_dir
       THEN Return(w, 0)
       ELSE Goto(w, "write")
    /\ UNCHANGED <<regVars, wop, wret, out_dir, files_written>>

\* Lines 337-364: fopen, fwrite, fclose; on an open failure or a short write (the
\* partial file removed) return 0; else go on to register the dump.
WriteFile(w) ==
    /\ UNCHANGED <<accVars, hdrVars, restVars>>
    /\ wpc[w] = "write"
    /\ \E outcome \in {"open_failed", "short_write", "written"} :
         IF outcome = "written"
         THEN /\ out_dir' = out_dir \cup {wjob[w].digest}
              /\ files_written' = files_written + 1
              /\ wop' = [wop EXCEPT ![w] = [op |-> "register", inode |-> wjob[w].inode,
                                            digest |-> wjob[w].digest]]
              /\ Goto(w, "lock")
         ELSE /\ Return(w, 0)
              /\ UNCHANGED <<out_dir, files_written, wop>>
    /\ UNCHANGED <<regVars, wret>>

NextWorkers ==
    \/ \E w \in Workers, job \in Jobs : DumpStart(w, job)
    \/ \E w \in Workers : CleanupStart(w)
    \/ \E w \in Workers : Lock(w)
    \/ \E w \in Workers : Body(w)
    \/ \E w \in Workers : Unlock(w)
    \/ \E w \in Workers : Hash(w)
    \/ \E w \in Workers : DirCheck(w)
    \/ \E w \in Workers : WriteFile(w)

\* Process start, the output directory just cleaned (main.c:164).
InitWorkers ==
    /\ alive = TRUE
    /\ exit_code = -1
    /\ disposition = [s \in Signals |-> "default"]
    /\ signal_handlers_installed = 0
    /\ signal_handler_stack = NoStack
    /\ signal_handler_mutex = 0
    /\ install_log = <<>>
    /\ recovery_buffer_ready = [s \in Threads |-> 0]
    /\ signal_recovery_buffer = [s \in Threads |-> "unset"]
    /\ apc = [t \in Threads |-> "idle"]
    /\ areq = [t \in Threads |-> NoRequest]
    /\ acall = [t \in Threads |-> NoCall]
    /\ dumped_files_registry = NullArray
    /\ dumped_files_count = 0
    /\ dumped_files_capacity = 0
    /\ dump_registry_mutex = 0
    /\ reg_log = <<>>
    /\ reg_last = NoCallYet
    /\ reg_pre = EmptyRegistry
    /\ wpc = [w \in Workers |-> "idle"]
    /\ wjob = [w \in Workers |-> NoJob]
    /\ wop = [w \in Workers |-> NoOp]
    /\ wret = [w \in Workers |-> -1]
    /\ wdone = [w \in Workers |-> -1]
    /\ out_dir = {}
    /\ files_written = 0
    /\ hdr = 0 /\ hin = 0 /\ hout = -1
    /\ dmem = 0 /\ dpc = 0 /\ detection_result = 0 /\ dlog = <<>>
    /\ memory_regions = <<>> /\ rpc = 0 /\ package_name = <<>>
    /\ total_dumps_successful = 0
    /\ processed_region_count = 0 /\ rlog = <<>>
    /\ maps_file = <<>> /\ regions_array = 0 /\ region_count = 0
    /\ regions_capacity = 0 /\ mpc = 0
    /\ sha_ctx = 0 /\ sha_feed = 0 /\ sha_pc = 0

SpecWorkers == InitWorkers /\ [][NextWorkers]_vars

(***************************************************************************)
(* Claims about the worker tasks                                           *)
(***************************************************************************)

\* The workers that are inside the locked section of a registry call.
InSection == { w \in Workers : wpc[w] \in {"body", "unlock"} }

\* C8: every read and write of the registry array, count and capacity (the two
\* lookups, register and the end-of-run cleanup) is made by a thread that holds
\* dump_registry_mutex; at most one thread is inside such a section at a time;
\* and every return path of a registry call releases the mutex, so the mutex is
\* never held by a thread that is outside a section, and a waiting caller is
\* never blocked for good.
C8_RegistryAccessIsSerialized ==
    /\ \A w \in Workers : (w \in InSection) <=> (dump_registry_mutex = w)
    /\ Cardinality(InSection) <= 1
    /\ dump_registry_mutex # 0 => dump_registry_mutex \in InSection
    /\ \A w \in Workers :
          (wpc[w] = "lock" /\ dump_registry_mutex # 0)
              => wpc[dump_registry_mutex] \in {"body", "unlock"}

\* One worker is inside register, about to touch the registry, while another
\* waits on the mutex at the head of a lookup.
C8_Witness ==
    \E w1, w2 \in Workers :
        /\ w1 # w2
        /\ wpc[w1] = "body" /\ wop[w1].op = "register"
        /\ wpc[w2] = "lock" /\ wop[w2].op = "lookup_digest"
        /\ dumped_files_count > 0

\* The workers that passed is_checksum_already_dumped for their payload and have
\* not yet entered register.
BetweenCheckAndInsert ==
    { w \in Workers : \/ wpc[w] \in {"dircheck", "write"}
                      \/ wpc[w] = "lock" /\ wop[w].op = "register" }

\* C9: the check (is_checksum_already_dumped) and the insert (register) are two
\* separate locked calls that dump_memory_to_file does not compose atomically:
\* a task that passed the check holds no lock until it enters register, so a
\* second task with a byte-identical payload can pass the check in between.
C9_CheckAndInsertAreNotAtomic ==
    \A w \in BetweenCheckAndInsert :
        /\ dump_registry_mutex # w
        /\ \A v \in Workers \ {w} :
              (wpc[v] = "lock" /\ wop[v].op = "lookup_digest"
                 /\ dump_registry_mutex = 0) => ENABLED Lock(v)

\* Two tasks ran dump_memory_to_file on byte-identical payloads, both wrote a
\* file and returned 1, and the registry holds two entries with that digest.
C9_Witness ==
    \E w1, w2 \in Workers :
        /\ w1 # w2
        /\ wdone[w1] = 1 /\ wdone[w2] = 1
        /\ files_written = 2
        /\ dumped_files_count = 2
        /\ compare_sha1_digests(dumped_files_registry.slot[0].sha1_digest,
                                dumped_files_registry.slot[1].sha1_digest) = 1

(***************************************************************************)
(* validate_dex_header_structure (dex_detector.c)                          *)
(***************************************************************************)

DEX_HEADER_SIZE == 112
\* The endian tag of a standard DEX file, 0x12345678.
ENDIAN_CONSTANT == 305419896

\* Offsets of the header fields the validator reads: file size (0x20), header
\* size (0x24), endian tag (0x28), string table size (0x38) and offset (0x3C).
OFF_FILE_SIZE == 32
OFF_HEADER_SIZE == 36
OFF_ENDIAN_TAG == 40
OFF_STRING_IDS_SIZE == 56
OFF_STRING_IDS_OFF == 60
FieldOffsets == {OFF_FILE_SIZE, OFF_HEADER_SIZE, OFF_ENDIAN_TAG, OFF_STRING_IDS_SIZE,
                 OFF_STRING_IDS_OFF}

\* A uint32_t as memcpy delivers it from four bytes of memory on the
\* little-endian targets of the build (arm, arm64, x86, x86_64).
U32(b) == b[1] + 256 * b[2] + 65536 * b[3] + 16777216 * b[4]

\* The bytes found at the five fields of the candidate headers.
FileSizeBytes == { <<255, 3, 0, 0>>, <<0, 4, 0, 0>>, <<0, 8, 0, 0>>,
                   <<0, 0, 32, 3>>, <<1, 0, 32, 3>> }
HeaderSizeBytes == { <<112, 0, 0, 0>>, <<0, 0, 0, 112>>, <<113, 0, 0, 0>> }
EndianTagBytes == { <<120, 86, 52, 18>>, <<18, 52, 86, 120>> }
StringIdsSizeBytes == { <<0, 0, 0, 0>>, <<16, 0, 0, 0>>, <<0, 1, 0, 0>>,
                        <<1, 1, 0, 0>>, <<0, 0, 0, 64>> }
StringIdsOffBytes == { <<0, 0, 0, 0>>, <<112, 0, 0, 0>>, <<0, 4, 0, 0>>,
                       <<1, 4, 0, 0>>, <<0, 8, 0, 0>> }

\* scan_size and current_offset as scan_for_dex_signature passes them: the
\* offset is a multiple of 4 with offset + 8 <= scan_size.
BufferSizes == {64, 112, 128, 1024, 1040, 2048, 2064, 52428800, 52428816, 52428817}
HeaderOffsets == {0, 16}

\* The field whose read_memory_safely call returns 0, or 0 when every read
\* succeeds.
NoFailure == 0
FailingReads == {NoFailure} \cup FieldOffsets

HeaderInputs ==
    { i \in [ buffer_size : BufferSizes, header_offset : HeaderOffsets,
              file_size : FileSizeBytes, header_size : HeaderSizeBytes,
              endian_tag : EndianTagBytes, string_ids_size : StringIdsSizeBytes,
              string_ids_off : StringIdsOffBytes, fail : FailingReads ] :
        i.header_offset + 8 <= i.buffer_size }

\* The bytes of candidate i at a field offset.
FieldBytes(i, field) ==
    CASE field = OFF_FILE_SIZE -> i.file_size
      [] field = OFF_HEADER_SIZE -> i.header_size
      [] field = OFF_ENDIAN_TAG -> i.endian_tag
      [] field = OFF_STRING_IDS_SIZE -> i.string_ids_size
      [] field = OFF_STRING_IDS_OFF -> i.string_ids_off

\* read_memory_safely(header_start + header_offset + field, &value, 4) as the
\* validator sees it: 0 and the destination untouched, or 1 and the value.
ReadField(i, field) ==
    IF i.fail = field THEN [ok |-> 0, value |-> 0]
                      ELSE [ok |-> 1, value |-> U32(FieldBytes(i, field))]

\* uint64_t arithmetic, a value held as four 16-bit limbs, least significant
\* first; results are reduced modulo 2^64.
Limb == 65536
ToU64(v) == << v % Limb, (v \div Limb) % Limb, 0, 0 >>
AddU64(x, y) ==
    LET s1 == x[1] + y[1]
        s2 == x[2] + y[2] + (s1 \div Limb)
        s3 == x[3] + y[3] + (s2 \div Limb)
        s4 == x[4] + y[4] + (s3 \div Limb)
    IN  << s1 % Limb, s2 % Limb, s3 % Limb, s4 % Limb >>
\* The product as a 32-bit multiplication would leave it, reduced modulo 2^32.
Mul4In32Bits(x) ==
    LET s1 == x[1] * 4
        s2 == x[2] * 4 + (s1 \div Limb)
    IN  << s1 % Limb, s2 % Limb, 0, 0 >>
Mul4U64(x) ==
    LET s1 == x[1] * 4
        s2 == x[2] * 4 + (s1 \div Limb)
        s3 == x[3] * 4 + (s2 \div Limb)
        s4 == x[4] * 4 + (s3 \div Limb)
    IN  << s1 % Limb, s2 % Limb, s3 % Limb, s4 % Limb >>
GtU64(x, y) ==
    \/ x[4] > y[4]
    \/ x[4] = y[4] /\ x[3] > y[3]
    \/ x[4] = y[4] /\ x[3] = y[3] /\ x[2] > y[2]
    \/ x[4] = y[4] /\ x[3] = y[3] /\ x[2] = y[2] /\ x[1] > y[1]

\* Line 27: the declared size is outside the payload bounds.
SizeOutOfRangeAtMinimum(dex_file_size) ==
    dex_file_size <= DEX_MIN_FILE_SIZE \/ dex_file_size > DEX_MAX_FILE_SIZE
SizeOutOfRange(dex_file_size) ==
    dex_file_size < DEX_MIN_FILE_SIZE \/ dex_file_size > DEX_MAX_FILE_SIZE

\* Lines 73-74: the string table reaches beyond the declared size.
StringTableOutOfBounds(string_table_offset, string_table_size, dex_file_size) ==
    \/ string_table_offset > dex_file_size
    \/ GtU64(AddU64(ToU64(string_table_offset), Mul4U64(ToU64(string_table_size))),
             ToU64(dex_file_size))

validate_dex_header_structure(i) ==
    IF i.header_offset + DEX_HEADER_SIZE > i.buffer_size THEN 0
    ELSE LET size_read == ReadField(i, OFF_FILE_SIZE)
             dex_file_size == size_read.value
         IN
         IF size_read.ok = 0 THEN 0
         ELSE IF SizeOutOfRange(dex_file_size) THEN 0
         ELSE IF dex_file_size > i.buffer_size - i.header_offset THEN 0
         ELSE LET header_read == ReadField(i, OFF_HEADER_SIZE) IN
         IF header_read.ok = 0 THEN 0
         ELSE IF header_read.value # DEX_HEADER_SIZE THEN 0
         ELSE LET endian_read == ReadField(i, OFF_ENDIAN_TAG) IN
         IF endian_read.ok = 0 THEN 0
         ELSE IF endian_read.value # ENDIAN_CONSTANT THEN 0
         ELSE LET count_read == ReadField(i, OFF_STRING_IDS_SIZE)
                  offset_read == ReadField(i, OFF_STRING_IDS_OFF)
              IN
         IF count_read.ok = 0 THEN 0
         ELSE IF offset_read.ok = 0 THEN 0
         ELSE IF StringTableOutOfBounds(offset_read.value, count_read.value,
                                        dex_file_size) THEN 0
         ELSE 1

\* scan_for_dex_signature found the magic at a candidate offset and calls the
\* validator (dex_detector.c line 120).
ValidateHeader ==
    /\ UNCHANGED <<accVars, regVars, wrkVars, restVars>>
    /\ hdr = "candidate"
    /\ hout' = validate_dex_header_structure(hin)
    /\ hdr' = "validated"
    /\ UNCHANGED hin

NextHeader == ValidateHeader

InitHeader ==
    /\ alive = TRUE
    /\ exit_code = -1
    /\ disposition = [s \in Signals |-> "default"]
    /\ signal_handlers_installed = 0
    /\ signal_handler_stack = NoStack
    /\ signal_handler_mutex = 0
    /\ install_log = <<>>
    /\ recovery_buffer_ready = [s \in Threads |-> 0]
    /\ signal_recovery_buffer = [s \in Threads |-> "unset"]
    /\ apc = [t \in Threads |-> "idle"]
    /\ areq = [t \in Threads |-> NoRequest]
    /\ acall = [t \in Threads |-> NoCall]
    /\ dumped_files_registry = NullArray
    /\ dumped_files_count = 0
    /\ dumped_files_capacity = 0
    /\ dump_registry_mutex = 0
    /\ reg_log = <<>>
    /\ reg_last = NoCallYet
    /\ reg_pre = EmptyRegistry
    /\ wpc = [w \in Workers |-> "idle"]
    /\ wjob = [w \in Workers |-> NoJob]
    /\ wop = [w \in Workers |-> NoOp]
    /\ wret = [w \in Workers |-> -1]
    /\ wdone = [w \in Workers |-> -1]
    /\ out_dir = {}
    /\ files_written = 0
    /\ hdr = "candidate"
    /\ hin \in HeaderInputs
    /\ hout = -1
    /\ dmem = 0 /\ dpc = 0 /\ detection_result = 0 /\ dlog = <<>>
    /\ memory_regions = <<>> /\ rpc = 0 /\ package_name = <<>>
    /\ total_dumps_successful = 0
    /\ processed_region_count = 0 /\ rlog = <<>>
    /\ maps_file = <<>> /\ regions_array = 0 /\ region_count = 0
    /\ regions_capacity = 0 /\ mpc = 0
    /\ sha_ctx = 0 /\ sha_feed = 0 /\ sha_pc = 0

SpecHeader == InitHeader /\ [][NextHeader]_vars

(***************************************************************************)
(* Claims about the header validator                                       *)
(***************************************************************************)

\* The value a header field declares.
Declared(field) == U32(FieldBytes(hin, field))

\* The checks the validator is documented to make.
AllHeaderChecksHold ==
    /\ hin.header_offset + 112 <= hin.buffer_size
    /\ Declared(OFF_FILE_SIZE) >= 1024
    /\ Declared(OFF_FILE_SIZE) <= 50 * 1024 * 1024
    /\ Declared(OFF_FILE_SIZE) <= hin.buffer_size - hin.header_offset
    /\ Declared(OFF_HEADER_SIZE) = 112
    /\ Declared(OFF_ENDIAN_TAG) = 305419896
    /\ Declared(OFF_STRING_IDS_OFF) <= Declared(OFF_FILE_SIZE)
    /\ Declared(OFF_STRING_IDS_SIZE)
          <= (Declared(OFF_FILE_SIZE) - Declared(OFF_STRING_IDS_OFF)) \div 4

\* C10: with every header read succeeding, validate_dex_header_structure
\* returns 1 exactly when offset + 0x70 <= bufferSize, the declared size is in
\* [1024, 50 MiB] and at most bufferSize - offset, the header-size field is
\* 0x70, the endian tag is 0x12345678 and the string table lies within the
\* declared size; a failing check or a failed field read yields 0.
C10_HeaderAcceptedExactlyWhenAllChecksHold ==
    hdr = "validated" =>
        /\ hout \in {0, 1}
        /\ hin.fail = NoFailure => (hout = 1 <=> AllHeaderChecksHold)
        /\ hin.fail # NoFailure => hout = 0

\* A header that declares the minimum size, 1024 bytes, was accepted at a
\* non-zero offset with its string table ending exactly at the declared size.
C10_Witness ==
    /\ hdr = "validated"
    /\ hout = 1
    /\ hin.header_offset = 16
    /\ Declared(OFF_FILE_SIZE) = 1024
    /\ Declared(OFF_STRING_IDS_SIZE) = 256

\* The other checks of the validator pass for the candidate: only the string
\* table decides.
OnlyStringTableDecides ==
    /\ hin.fail = NoFailure
    /\ hin.header_offset + 112 <= hin.buffer_size
    /\ Declared(OFF_FILE_SIZE) >= 1024
    /\ Declared(OFF_FILE_SIZE) <= 50 * 1024 * 1024
    /\ Declared(OFF_FILE_SIZE) <= hin.buffer_size - hin.header_offset
    /\ Declared(OFF_HEADER_SIZE) = 112
    /\ Declared(OFF_ENDIAN_TAG) = 305419896

\* 2^30, the least count whose product with 4 does not fit in 32 bits.
WrapCount == U32(<<0, 0, 0, 64>>)

\* C11: a header whose string-table offset is greater than the declared size is
\* rejected, and so is one for which offset + count*4, as a 64-bit value, is
\* greater than the declared size; a count of 2^30 or more, for which count*4
\* wraps to a small value in 32 bits, is rejected.
C11_StringTableCheckedIn64Bits ==
    hdr = "validated" =>
        /\ Declared(OFF_STRING_IDS_OFF) > Declared(OFF_FILE_SIZE) => hout = 0
        /\ (/\ Declared(OFF_STRING_IDS_OFF) <= Declared(OFF_FILE_SIZE)
            /\ Declared(OFF_STRING_IDS_SIZE)
                  > (Declared(OFF_FILE_SIZE) - Declared(OFF_STRING_IDS_OFF)) \div 4)
              => hout = 0
        /\ Declared(OFF_STRING_IDS_SIZE) >= WrapCount => hout = 0

\* A header that passes every other check, with its string table at offset 0
\* and a count of 2^30 (count*4 is 0 modulo 2^32), was rejected.
C11_Witness ==
    /\ hdr = "validated"
    /\ OnlyStringTableDecides
    /\ Declared(OFF_STRING_IDS_OFF) = 0
    /\ Declared(OFF_STRING_IDS_SIZE) = WrapCount
    /\ hout = 0

(***************************************************************************)
(* scan_for_dex_signature (dex_detector.c) over a region of memory         *)
(***************************************************************************)

\* Four bytes of text: "dex\n", "oat\n" and the version digits with their NUL.
DEX_MAGIC_SIGNATURE == <<100, 101, 120, 10>>
OAT_MAGIC == <<111, 97, 116, 10>>
Version034 == <<48, 51, 52, 0>>
Version035 == <<48, 51, 53, 0>>
Version039 == <<48, 51, 57, 0>>
ZeroWord == <<0, 0, 0, 0>>

\* Headers that may lie in the region: the magic, the version and the five
\* fields the validator reads.
GoodHeader ==
    [ magic |-> DEX_MAGIC_SIGNATURE, version |-> Version035,
      file_size |-> <<0, 8, 0, 0>>, header_size |-> <<112, 0, 0, 0>>,
      endian_tag |-> <<120, 86, 52, 18>>, string_ids_size |-> <<16, 0, 0, 0>>,
      string_ids_off |-> <<112, 0, 0, 0>> ]
SmallHeader == [GoodHeader EXCEPT !.file_size = <<0, 4, 0, 0>>]
NewestHeader == [GoodHeader EXCEPT !.version = Version039]
SwappedEndianHeader == [GoodHeader EXCEPT !.endian_tag = <<18, 52, 86, 120>>]
UnknownVersionHeader == [GoodHeader EXCEPT !.version = Version034]

\* The words a header h occupies when it starts at byte offset k: the magic at
\* k, the version at k+4 and the fields at k+0x20, 0x24, 0x28, 0x38 and 0x3C.
HeaderWords(k, h) ==
    LET w == k \div 4
    IN  (w :> h.magic) @@ (w + 1 :> h.version)
        @@ (w + (OFF_FILE_SIZE \div 4) :> h.file_size)
        @@ (w + (OFF_HEADER_SIZE \div 4) :> h.header_size)
        @@ (w + (OFF_ENDIAN_TAG \div 4) :> h.endian_tag)
        @@ (w + (OFF_STRING_IDS_SIZE \div 4) :> h.string_ids_size)
        @@ (w + (OFF_STRING_IDS_OFF \div 4) :> h.string_ids_off)

\* Nothing placed: the words stay zero.
NoWords == [w \in {} |-> ZeroWord]

\* What lies at the start of the region, at offset 16 and at offset 64.  Where
\* two headers overlap, the bytes of the one at the higher offset are in memory.
AtStart == { NoWords, HeaderWords(0, GoodHeader), HeaderWords(0, SwappedEndianHeader),
             (0 :> OAT_MAGIC) }
AtSixteen == { NoWords, HeaderWords(16, GoodHeader), HeaderWords(16, SmallHeader),
               HeaderWords(16, NewestHeader), HeaderWords(16, SwappedEndianHeader),
               HeaderWords(16, UnknownVersionHeader) }
AtSixtyFour == { NoWords, HeaderWords(64, GoodHeader), HeaderWords(64, SmallHeader) }

\* The words of the region that cannot be read (the accessor returns 0 for a
\* read that touches one of them).
Holes == { {}, {0, 1}, {4}, {12}, {16, 17} }

\* Region sizes, in bytes.
RegionSizes == {8, 112, 1040, 2064, 2112}

\* The region's memory: its size, the non-zero words and the unreadable words.
Memories ==
    { [size |-> n, words |-> c @@ b @@ a, holes |-> u, limit |-> 0] :
        n \in RegionSizes, a \in AtStart, b \in AtSixteen, c \in AtSixtyFour,
        u \in Holes }

\* The four bytes at word w of the region.
Word(m, w) == IF w \in DOMAIN m.words THEN m.words[w] ELSE ZeroWord

\* read_memory_safely(scan_start + offset, buffer, size) with the handlers
\* installed: 1 when every byte of the range can be read, else 0.
CanRead(m, offset, size) ==
    \A w \in (offset \div 4)..((offset + size - 1) \div 4) : w \notin m.holes

\* Lines 111-115: the first seven bytes equal "dex\n035" .. "dex\n039".
SignatureMatchesAnyDigit(signature_buffer) ==
    /\ signature_buffer[1] = DEX_MAGIC_SIGNATURE
    /\ signature_buffer[2][1] = 48 /\ signature_buffer[2][2] = 51
SignatureMatches(signature_buffer) ==
    /\ signature_buffer[1] = DEX_MAGIC_SIGNATURE
    /\ signature_buffer[2][1] = 48 /\ signature_buffer[2][2] = 51
    /\ signature_buffer[2][3] \in 53..57

\* The first field of the header at offset k whose read fails, in the order the
\* validator reads them.
FirstFailingRead(m, k) ==
    LET failing == { f \in FieldOffsets : ~CanRead(m, k + f, 4) }
    IN  IF failing = {} THEN NoFailure
        ELSE CHOOSE f \in failing : \A g \in failing : f <= g

\* The arguments and the memory validate_dex_header_structure(scan_start,
\* scan_size, current_offset) works on.
HeaderAt(m, k) ==
    [ buffer_size |-> m.size, header_offset |-> k,
      file_size |-> Word(m, (k + OFF_FILE_SIZE) \div 4),
      header_size |-> Word(m, (k + OFF_HEADER_SIZE) \div 4),
      endian_tag |-> Word(m, (k + OFF_ENDIAN_TAG) \div 4),
      string_ids_size |-> Word(m, (k + OFF_STRING_IDS_SIZE) \div 4),
      string_ids_off |-> Word(m, (k + OFF_STRING_IDS_OFF) \div 4),
      fail |-> FirstFailingRead(m, k) ]

NotFound == [ret |-> 0, dex_address |-> -1, dex_size |-> 0]

\* The body of the loop reporting the size of the scanned region as the size of
\* the payload.
ScanStrideReportsScanSize(m, current_offset) ==
    IF ~CanRead(m, current_offset, 8) THEN NotFound
    ELSE IF /\ SignatureMatches(<< Word(m, current_offset \div 4),
                                   Word(m, current_offset \div 4 + 1) >>)
            /\ validate_dex_header_structure(HeaderAt(m, current_offset)) = 1
            /\ CanRead(m, current_offset + OFF_FILE_SIZE, 4)
         THEN [ret |-> 1, dex_address |-> current_offset, dex_size |-> m.size]
    ELSE NotFound

\* The body of the loop, lines 104-135, at one stride: the payload found there,
\* or NotFound when the loop goes on (the probe cannot be read, the magic does
\* not match, the header does not validate, or the size cannot be read again).
ScanStride(m, current_offset) ==
    IF ~CanRead(m, current_offset, 8) THEN NotFound
    ELSE IF /\ SignatureMatches(<< Word(m, current_offset \div 4),
                                   Word(m, current_offset \div 4 + 1) >>)
            /\ validate_dex_header_structure(HeaderAt(m, current_offset)) = 1
            /\ CanRead(m, current_offset + OFF_FILE_SIZE, 4)
         THEN [ret |-> 1, dex_address |-> current_offset,
               dex_size |-> U32(Word(m, (current_offset + OFF_FILE_SIZE) \div 4))]
    ELSE NotFound

\* The strides first..last (offsets 4*first .. 4*last) in ascending order,
\* stopping at the first that returns; the range is halved to keep the
\* evaluation shallow, the order of the strides is that of the loop.
RECURSIVE ScanStrides(_, _, _)
ScanStrides(m, first, last) ==
    IF first > last THEN NotFound
    ELSE IF first = last THEN ScanStride(m, 4 * first)
    ELSE LET middle == (first + last) \div 2
             lower == ScanStrides(m, first, middle)
         IN  IF lower.ret = 1 THEN lower ELSE ScanStrides(m, middle + 1, last)

\* The loop of lines 103-136: current_offset = 0, 4, 8, ... while
\* current_offset <= actual_scan_limit - 8.
ScanLoop(m, actual_scan_limit) ==
    ScanStrides(m, 0, (actual_scan_limit - 8) \div 4)

\* scan_for_dex_signature(scan_start, scan_size, max_scan_limit, &result);
\* scan_start is the region's base, never NULL.  dex_address is the offset of
\* the payload from scan_start.
scan_for_dex_signature(m, scan_size, max_scan_limit) ==
    IF scan_size = 0 THEN NotFound
    ELSE LET actual_scan_limit ==
                 IF max_scan_limit > scan_size THEN scan_size ELSE max_scan_limit
         IN  IF actual_scan_limit < 8 THEN NotFound
             ELSE ScanLoop(m, actual_scan_limit)

\* The max_scan_limit arguments of the direct calls.
ScanLimits == {4, 24, 72, 4096}

\* A direct call of scan_for_dex_signature on the region.
ScanForDexSignature ==
    /\ UNCHANGED <<accVars, regVars, wrkVars, hdrVars, runVars, mapVars, shaVars>>
    /\ dpc = "scan"
    /\ detection_result' = scan_for_dex_signature(dmem, dmem.size, dmem.limit)
    /\ dpc' = "scanned"
    /\ dlog' = Append(dlog, "scan_for_dex_signature")
    /\ UNCHANGED dmem

NextScan == ScanForDexSignature

InitScan ==
    /\ alive = TRUE
    /\ exit_code = -1
    /\ disposition = [s \in Signals |-> "default"]
    /\ signal_handlers_installed = 0
    /\ signal_handler_stack = NoStack
    /\ signal_handler_mutex = 0
    /\ install_log = <<>>
    /\ recovery_buffer_ready = [s \in Threads |-> 0]
    /\ signal_recovery_buffer = [s \in Threads |-> "unset"]
    /\ apc = [t \in Threads |-> "idle"]
    /\ areq = [t \in Threads |-> NoRequest]
    /\ acall = [t \in Threads |-> NoCall]
    /\ dumped_files_registry = NullArray
    /\ dumped_files_count = 0
    /\ dumped_files_capacity = 0
    /\ dump_registry_mutex = 0
    /\ reg_log = <<>>
    /\ reg_last = NoCallYet
    /\ reg_pre = EmptyRegistry
    /\ wpc = [w \in Workers |-> "idle"]
    /\ wjob = [w \in Workers |-> NoJob]
    /\ wop = [w \in Workers |-> NoOp]
    /\ wret = [w \in Workers |-> -1]
    /\ wdone = [w \in Workers |-> -1]
    /\ out_dir = {}
    /\ files_written = 0
    /\ hdr = 0 /\ hin = 0 /\ hout = -1
    /\ \E m \in Memories, max_scan_limit \in ScanLimits :
          dmem = [m EXCEPT !.limit = max_scan_limit]
    /\ dpc = "scan"
    /\ detection_result = NotFound
    /\ dlog = <<>>
    /\ memory_regions = <<>> /\ rpc = 0 /\ package_name = <<>>
    /\ total_dumps_successful = 0
    /\ processed_region_count = 0 /\ rlog = <<>>
    /\ maps_file = <<>> /\ regions_array = 0 /\ region_count = 0
    /\ regions_capacity = 0 /\ mpc = 0
    /\ sha_ctx = 0 /\ sha_feed = 0 /\ sha_pc = 0

SpecScan == InitScan /\ [][NextScan]_vars

(***************************************************************************)
(* Claims about the scan                                                   *)
(***************************************************************************)

\* The seven-byte prefixes "dex\n035" .. "dex\n039", as bytes.
DexPrefixes == { DEX_MAGIC_SIGNATURE \o <<48, 51, d>> : d \in 53..57 }

\* The first seven bytes at offset k of the region.
SevenBytesAt(m, k) == Word(m, k \div 4) \o SubSeq(Word(m, k \div 4 + 1), 1, 3)

\* The offsets the scan is documented to stop at: multiples of 4, at most
\* min(scanLimit, regionSize) - 8, with a readable 8-byte probe, a magic prefix
\* and a header that validates.
ScanHits(m) ==
    LET bound == (IF m.limit < m.size THEN m.limit ELSE m.size) - 8
    IN  { k \in { 4 * j : j \in 0..(bound \div 4) } :
            /\ k <= bound
            /\ CanRead(m, k, 8)
            /\ SevenBytesAt(m, k) \in DexPrefixes
            /\ validate_dex_header_structure(HeaderAt(m, k)) = 1 }

\* C12: with memory unchanged during the call, scan_for_dex_signature returns
\* the lowest offset k that is a multiple of 4, at most min(scanLimit,
\* regionSize) - 8, whose probe is readable, whose first seven bytes are a DEX
\* magic and whose header validates; unreadable strides and magic matches with
\* an invalid header at lower offsets do not stop the scan; it returns 0 only
\* if there is no such k.
C12_ScanReturnsTheLowestValidOffset ==
    dpc = "scanned" =>
        IF ScanHits(dmem) = {}
        THEN detection_result.ret = 0
        ELSE /\ detection_result.ret = 1
             /\ detection_result.dex_address \in ScanHits(dmem)
             /\ \A k \in ScanHits(dmem) : detection_result.dex_address <= k

\* The scan passed a magic match whose header does not validate (offset 0) and
\* strides that cannot be read (offsets 12 and 16), and returned offset 64.
C12_Witness ==
    /\ dpc = "scanned"
    /\ detection_result.ret = 1
    /\ detection_result.dex_address = 64
    /\ SevenBytesAt(dmem, 0) \in DexPrefixes
    /\ CanRead(dmem, 0, 8)
    /\ ~CanRead(dmem, 16, 8)
    /\ SevenBytesAt(dmem, 16) \in DexPrefixes

(***************************************************************************)
(* perform_comprehensive_dex_detection (dex_detector.c) and its strategies *)
(***************************************************************************)

DEFAULT_SCAN_LIMIT == 2097152
\* The part of an OAT container that is scanned, 64 * 1024 bytes.
OAT_SCAN_LIMIT == 65536

\* The plain scan stopping 16 bytes into the region.
ScanRegionOverSixteenBytes(m) ==
    IF m.size < DEX_HEADER_SIZE THEN NotFound
    ELSE scan_for_dex_signature(m, m.size, 16)

\* Lines 150-158.
scan_region_for_dex_files(m) ==
    IF m.size < DEX_HEADER_SIZE THEN NotFound
    ELSE LET scan_limit == IF m.size > DEFAULT_SCAN_LIMIT THEN DEFAULT_SCAN_LIMIT
                                                          ELSE m.size
         IN  scan_for_dex_signature(m, m.size, scan_limit)

\* Lines 171-185.
scan_region_for_oat_dex_files(m) ==
    IF m.size < 8 THEN NotFound
    ELSE IF ~CanRead(m, 0, 4) THEN NotFound
    ELSE IF Word(m, 0) # OAT_MAGIC THEN NotFound
    ELSE scan_for_dex_signature(m, m.size, OAT_SCAN_LIMIT)

\* Lines 201-207: the strategies, in the order they are tried.
StrategiesContainerFirst == << "OAT container", "standard DEX" >>
detection_strategies == << "standard DEX", "OAT container" >>
strategy_count == Len(detection_strategies)

\* detection_strategies[i].detector_function(region_start, region_size, result).
detector_function(detection_type, m) ==
    IF detection_type = "standard DEX" THEN scan_region_for_dex_files(m)
                                       ELSE scan_region_for_oat_dex_files(m)

\* The loop of lines 212-220 from strategy i on, as one call.
RECURSIVE DetectionLoop(_, _)
DetectionLoop(m, i) ==
    IF i > strategy_count THEN NotFound
    ELSE LET r == detector_function(detection_strategies[i], m)
         IN  IF r.ret = 1 THEN r ELSE DetectionLoop(m, i + 1)

perform_comprehensive_dex_detection(m) == DetectionLoop(m, 1)

\* One iteration of the loop of lines 212-218: strategy dpc.i is invoked; its
\* success ends the call with 1.
TryStrategy ==
    /\ UNCHANGED <<accVars, regVars, wrkVars, hdrVars, runVars, mapVars, shaVars>>
    /\ ~dpc.returned
    /\ dpc.i <= strategy_count
    /\ \E r \in {detector_function(detection_strategies[dpc.i], dmem)} :
           /\ dlog' = Append(dlog, [detection_type |-> detection_strategies[dpc.i],
                                    result |-> r])
           /\ IF r.ret = 1
              THEN /\ detection_result' = r
                   /\ dpc' = [dpc EXCEPT !.returned = TRUE]
              ELSE /\ dpc' = [dpc EXCEPT !.i = @ + 1]
                   /\ UNCHANGED detection_result
    /\ UNCHANGED dmem

\* Line 220: the strategies are exhausted; the caller's result is untouched.
NoStrategySucceeded ==
    /\ UNCHANGED <<accVars, regVars, wrkVars, hdrVars, runVars, mapVars, shaVars>>
    /\ ~dpc.returned
    /\ dpc.i > strategy_count
    /\ dpc' = [dpc EXCEPT !.returned = TRUE]
    /\ UNCHANGED <<dmem, detection_result, dlog>>

NextDetect ==
    \/ TryStrategy
    \/ NoStrategySucceeded

\* Regions larger than the 64 KiB the container scan covers: an OAT magic or
\* nothing at the start, and a header at the last stride inside the 64 KiB or
\* at the first one past them.
LargeMemories ==
    { [size |-> OAT_SCAN_LIMIT + 2064, words |-> b @@ a, holes |-> {}, limit |-> 0] :
        a \in {NoWords, (0 :> OAT_MAGIC)},
        b \in {HeaderWords(OAT_SCAN_LIMIT - 8, GoodHeader),
               HeaderWords(OAT_SCAN_LIMIT, GoodHeader),
               HeaderWords(OAT_SCAN_LIMIT, SwappedEndianHeader)} }

\* scan_and_dump_region calls detection on a region with a zeroed result
\* (main.c lines 54-56).
InitDetect ==
    /\ alive = TRUE
    /\ exit_code = -1
    /\ disposition = [s \in Signals |-> "default"]
    /\ signal_handlers_installed = 0
    /\ signal_handler_stack = NoStack
    /\ signal_handler_mutex = 0
    /\ install_log = <<>>
    /\ recovery_buffer_ready = [s \in Threads |-> 0]
    /\ signal_recovery_buffer = [s \in Threads |-> "unset"]
    /\ apc = [t \in Threads |-> "idle"]
    /\ areq = [t \in Threads |-> NoRequest]
    /\ acall = [t \in Threads |-> NoCall]
    /\ dumped_files_registry = NullArray
    /\ dumped_files_count = 0
    /\ dumped_files_capacity = 0
    /\ dump_registry_mutex = 0
    /\ reg_log = <<>>
    /\ reg_last = NoCallYet
    /\ reg_pre = EmptyRegistry
    /\ wpc = [w \in Workers |-> "idle"]
    /\ wjob = [w \in Workers |-> NoJob]
    /\ wop = [w \in Workers |-> NoOp]
    /\ wret = [w \in Workers |-> -1]
    /\ wdone = [w \in Workers |-> -1]
    /\ out_dir = {}
    /\ files_written = 0
    /\ hdr = 0 /\ hin = 0 /\ hout = -1
    /\ dmem \in Memories \cup LargeMemories
    /\ dpc = [i |-> 1, returned |-> FALSE]
    /\ detection_result = NotFound
    /\ dlog = <<>>
    /\ memory_regions = <<>> /\ rpc = 0 /\ package_name = <<>>
    /\ total_dumps_successful = 0
    /\ processed_region_count = 0 /\ rlog = <<>>
    /\ maps_file = <<>> /\ regions_array = 0 /\ region_count = 0
    /\ regions_capacity = 0 /\ mpc = 0
    /\ sha_ctx = 0 /\ sha_feed = 0 /\ sha_pc = 0

SpecDetect == InitDetect /\ [][NextDetect]_vars

(***************************************************************************)
(* Claims about detection                                                  *)
(***************************************************************************)

\* The value of the header field at offset field of a header at offset k.
FieldAt(m, k, field) == U32(Word(m, (k + field) \div 4))

\* The buffer holds, at offset k, a magic prefix and a header with header size
\* 0x70, the endian tag 0x12345678, a total size in range that fits in the
\* buffer and string-table fields within bounds.
ValidPayloadAt(m, k) ==
    /\ k + 112 <= m.size
    /\ SevenBytesAt(m, k) \in DexPrefixes
    /\ FieldAt(m, k, OFF_HEADER_SIZE) = 112
    /\ FieldAt(m, k, OFF_ENDIAN_TAG) = 305419896
    /\ FieldAt(m, k, OFF_FILE_SIZE) >= 1024
    /\ FieldAt(m, k, OFF_FILE_SIZE) <= 50 * 1024 * 1024
    /\ FieldAt(m, k, OFF_FILE_SIZE) <= m.size - k
    /\ FieldAt(m, k, OFF_STRING_IDS_OFF) <= FieldAt(m, k, OFF_FILE_SIZE)
    /\ FieldAt(m, k, OFF_STRING_IDS_SIZE)
          <= (FieldAt(m, k, OFF_FILE_SIZE) - FieldAt(m, k, OFF_STRING_IDS_OFF)) \div 4

\* The 4-aligned offsets of the buffer at which a header can start.
AlignedOffsets(m) == { 4 * j : j \in 0..((m.size - 8) \div 4) }

\* The offsets k the claim is about: a readable buffer with a valid payload at
\* k and none at a lower offset.
FirstValidPayloads(m) ==
    IF m.holes # {} \/ m.size < 8 THEN {}
    ELSE { k \in AlignedOffsets(m) :
             /\ ValidPayloadAt(m, k)
             /\ \A j \in AlignedOffsets(m) : j < k => ~ValidPayloadAt(m, j) }

\* The buffer with only the endian-tag field of the header at k changed.
EndianTagChanged(m, k) ==
    { [m EXCEPT !.words = ((k + OFF_ENDIAN_TAG) \div 4 :> tag) @@ m.words] :
        tag \in { <<18, 52, 86, 120>>, ZeroWord } }

\* The first half of C13, which holds: detection returns 1 with the address and
\* the declared size of the first valid payload.
FirstValidPayloadIsDetected ==
    dpc.returned =>
        \A k \in FirstValidPayloads(dmem) :
            detection_result = [ret |-> 1, dex_address |-> k,
                                dex_size |-> FieldAt(dmem, k, OFF_FILE_SIZE)]

DocumentedOrder == << "standard DEX", "OAT container" >>

\* C14: detection always runs the plain-format scan before the container scan,
\* returns the result of the first strategy that succeeds, never invokes the
\* container scan once the plain scan has succeeded, and returns 0 only after
\* both strategies returned 0.
C14_PlainScanFirstThenContainerScan ==
    /\ Len(dlog) <= 2
    /\ \A n \in 1..Len(dlog) : dlog[n].detection_type = DocumentedOrder[n]
    /\ \A n \in 1..Len(dlog) : n < Len(dlog) => dlog[n].result.ret = 0
    /\ dpc.returned =>
          /\ Len(dlog) >= 1
          /\ IF dlog[Len(dlog)].result.ret = 1
             THEN detection_result = dlog[Len(dlog)].result
             ELSE /\ detection_result.ret = 0
                  /\ Len(dlog) = 2
    /\ ~dpc.returned => \A n \in 1..Len(dlog) : dlog[n].result.ret = 0

\* Detection returned 1 from the plain scan on a region that starts with the
\* OAT magic, and the container scan was not invoked.
C14_Witness ==
    /\ dpc.returned
    /\ detection_result.ret = 1
    /\ Word(dmem, 0) = OAT_MAGIC
    /\ Len(dlog) = 1
    /\ dlog[1].detection_type = "standard DEX"

(***************************************************************************)
(* Region filtering and classification (memory_scanner.c)                  *)
(***************************************************************************)

\* A C string is the sequence of its characters.  strstr(haystack, needle) is
\* not NULL.
Contains(haystack, needle) ==
    \E i \in 1..(Len(haystack) - Len(needle) + 1) :
        SubSeq(haystack, i, i + Len(needle) - 1) = needle

\* memory_scanner.c lines 147-154.
excluded_path_patterns ==
    << <<"/", "s", "y", "s", "t", "e", "m", "/">>,
       <<"/", "a", "p", "e", "x", "/">>,
       <<"/", "v", "e", "n", "d", "o", "r", "/">>,
       <<"/", "f", "r", "a", "m", "e", "w", "o", "r", "k", "/">>,
       <<"c", "o", "r", "e", "-", "o", "j">>,
       <<"c", "o", "r", "e", "-", "l", "i", "b", "a", "r", "t">>,
       <<"a", "n", "d", "r", "o", "i", "d", ".">>,
       <<"j", "a", "v", "a", ".">>,
       <<"c", "o", "m", ".", "a", "n", "d", "r", "o", "i", "d", ".">>,
       <<"c", "o", "m", ".", "g", "o", "o", "g", "l", "e", ".">>,
       <<"/", "d", "e", "v", "/">>,
       <<"/", "p", "r", "o", "c", "/">>,
       <<"/", "a", "s", "h", "m", "e", "m", "/">>,
       <<"/", "d", "m", "a", "b", "u", "f">>,
       <<"k", "g", "s", "l", "-", "3", "d", "0">>,
       <<"g", "r", "a", "p", "h", "i", "c", "s">>,
       <<"[", "h", "e", "a", "p", "]">>,
       <<"[", "s", "t", "a", "c", "k", "]">>,
       <<"[", "a", "n", "o", "n", ":">>,
       <<"h", "w", "u", "i">> >>

\* memory_scanner.c lines 162-166: the patterns that override an exclusion.
OverridePatterns ==
    << <<".", "d", "e", "x">>,
       <<".", "v", "d", "e", "x">>,
       <<".", "a", "p", "k">>,
       <<"d", "a", "l", "v", "i", "k">>,
       <<"j", "i", "t">> >>

\* Paths of mapped regions, as parse_memory_regions stores them.
\* ""
AnonymousPath == << >>
\* "/system/lib64/libc.so"
SystemLibraryPath == <<"/", "s", "y", "s", "t", "e", "m", "/", "l", "i", "b", "6", "4", "/", "l", "i", "b", "c", ".", "s", "o">>
\* "/system/framework/boot.vdex"
BootVdexPath == <<"/", "s", "y", "s", "t", "e", "m", "/", "f", "r", "a", "m", "e", "w", "o", "r", "k", "/", "b", "o", "o", "t", ".", "v", "d", "e", "x">>
\* "/data/app/com.example.app/base.apk"
AppApkPath == <<"/", "d", "a", "t", "a", "/", "a", "p", "p", "/", "c", "o", "m", ".", "e", "x", "a", "m", "p", "l", "e", ".", "a", "p", "p", "/", "b", "a", "s", "e", ".", "a", "p", "k">>
\* "/data/data/com.example.app/x.bin"
AppDataPath == <<"/", "d", "a", "t", "a", "/", "d", "a", "t", "a", "/", "c", "o", "m", ".", "e", "x", "a", "m", "p", "l", "e", ".", "a", "p", "p", "/", "x", ".", "b", "i", "n">>
\* "/system/app/com.example.app/x.oat"
SystemAppOatPath == <<"/", "s", "y", "s", "t", "e", "m", "/", "a", "p", "p", "/", "c", "o", "m", ".", "e", "x", "a", "m", "p", "l", "e", ".", "a", "p", "p", "/", "x", ".", "o", "a", "t">>
\* "[anon:dalvik-main]"
DalvikAnonPath == <<"[", "a", "n", "o", "n", ":", "d", "a", "l", "v", "i", "k", "-", "m", "a", "i", "n", "]">>
\* "/dev/ashmem/jit-cache"
JitCachePath == <<"/", "d", "e", "v", "/", "a", "s", "h", "m", "e", "m", "/", "j", "i", "t", "-", "c", "a", "c", "h", "e">>
\* "[heap]"
HeapPath == <<"[", "h", "e", "a", "p", "]">>
\* "[anon:scudo:primary]"
ScudoAnonPath == <<"[", "a", "n", "o", "n", ":", "s", "c", "u", "d", "o", ":", "p", "r", "i", "m", "a", "r", "y", "]">>
\* "/product/fonts/Roboto.ttf"
FontPath == <<"/", "p", "r", "o", "d", "u", "c", "t", "/", "f", "o", "n", "t", "s", "/", "R", "o", "b", "o", "t", "o", ".", "t", "t", "f">>
\* "/vendor/overlay/theme.apk"
VendorApkPath == <<"/", "v", "e", "n", "d", "o", "r", "/", "o", "v", "e", "r", "l", "a", "y", "/", "t", "h", "e", "m", "e", ".", "a", "p", "k">>
RegionPaths == { AnonymousPath, SystemLibraryPath, BootVdexPath, AppApkPath, AppDataPath, SystemAppOatPath, DalvikAnonPath, JitCachePath, HeapPath, ScudoAnonPath, FontPath, VendorApkPath }

\* "com.example.app", and the empty name left when /proc/self/cmdline cannot be read.
AppPackage == <<"c", "o", "m", ".", "e", "x", "a", "m", "p", "l", "e", ".", "a", "p", "p">>
NoPackage == << >>
PackageNames == { AppPackage, NoPackage }

MAX_REGION_SIZE == 209715200
ENABLE_REGION_FILTERING == 1

\* Permission strings as sscanf("%4s") stores them: "r--p", "rw-p", "---p".
ReadOnlyPermissions == <<"r", "-", "-", "p">>
ReadWritePermissions == <<"r", "w", "-", "p">>
NoPermissions == <<"-", "-", "-", "p">>
PermissionStrings == { ReadOnlyPermissions, ReadWritePermissions, NoPermissions }

\* strchr(permissions, 'r') is not NULL.
HasReadPermission(permissions) == \E n \in 1..Len(permissions) : permissions[n] = "r"

\* A MemoryRegion with what the process would meet there: whether the first
\* byte can be read, and whether a scan finds a payload.
RegionBase == 2 * PageSize
RegionBounds ==
    { [start_address |-> NULL, end_address |-> 2048],
      [start_address |-> RegionBase, end_address |-> RegionBase],
      [start_address |-> RegionBase, end_address |-> RegionBase + DEX_MIN_FILE_SIZE - 1],
      [start_address |-> RegionBase, end_address |-> RegionBase + DEX_MIN_FILE_SIZE],
      [start_address |-> RegionBase, end_address |-> RegionBase + MAX_REGION_SIZE],
      [start_address |-> RegionBase, end_address |-> RegionBase + MAX_REGION_SIZE + 1] }

\* The regions should_scan_memory_region is evaluated on.  An address below the
\* null guard is never readable.
FilterRegions ==
    { r \in [ start_address : {b.start_address : b \in RegionBounds},
              end_address : {b.end_address : b \in RegionBounds},
              permissions : PermissionStrings, path_name : RegionPaths,
              readable : BOOLEAN, payload : {"none"} ] :
        /\ [start_address |-> r.start_address, end_address |-> r.end_address]
              \in RegionBounds
        /\ r.readable => r.start_address >= NullGuard }

\* test_region_read_access, lines 13-30; the read is read_memory_safely(start,
\* &test_byte, 1) with the outcome the region carries.
test_region_read_access(memory_region) ==
    IF \/ memory_region.start_address = NULL
       \/ memory_region.end_address = NULL
       \/ memory_region.start_address >= memory_region.end_address
    THEN 0
    ELSE LET region_size == memory_region.end_address - memory_region.start_address
         IN  IF region_size < 16 \/ region_size > MAX_REGION_SIZE THEN 0
             ELSE IF memory_region.readable THEN 1 ELSE 0

\* Lines 162-168: the path carries a pattern that overrides an exclusion.
OverridesWithoutPackageGuard(path_name, package) ==
    \/ \E n \in 1..Len(OverridePatterns) : Contains(path_name, OverridePatterns[n])
    \/ Contains(path_name, package)
OverridesExclusion(path_name, package) ==
    \/ \E n \in 1..Len(OverridePatterns) : Contains(path_name, OverridePatterns[n])
    \/ (Len(package) > 0 /\ Contains(path_name, package))

\* The loop of lines 159-175 from pattern i on: 0 when the region is excluded,
\* 1 when the loop ends or breaks.
RECURSIVE ExclusionLoop(_, _, _)
ExclusionLoop(path_name, package, i) ==
    IF i > Len(excluded_path_patterns) THEN 1
    ELSE IF Contains(path_name, excluded_path_patterns[i])
         THEN IF OverridesExclusion(path_name, package) THEN 1 ELSE 0
         ELSE ExclusionLoop(path_name, package, i + 1)

\* should_scan_memory_region, lines 115-183.
should_scan_memory_region(memory_region, package) ==
    IF ~HasReadPermission(memory_region.permissions) THEN 0
    ELSE LET region_size == memory_region.end_address - memory_region.start_address
         IN
         IF region_size < DEX_MIN_FILE_SIZE \/ region_size > MAX_REGION_SIZE THEN 0
         ELSE IF \/ memory_region.start_address = NULL
                 \/ memory_region.end_address = NULL
                 \/ memory_region.start_address >= memory_region.end_address THEN 0
         ELSE IF test_region_read_access(memory_region) = 0 THEN 0
         ELSE IF /\ ENABLE_REGION_FILTERING = 1
                 /\ Len(memory_region.path_name) > 0
                 /\ ExclusionLoop(memory_region.path_name, package, 1) = 0 THEN 0
         ELSE 1

\* One call of should_scan_memory_region on the region.
ShouldScan ==
    /\ UNCHANGED <<accVars, regVars, wrkVars, hdrVars, detVars, mapVars, shaVars>>
    /\ rpc = "filter"
    /\ rlog' = << should_scan_memory_region(memory_regions[1], package_name) >>
    /\ rpc' = "filtered"
    /\ UNCHANGED <<memory_regions, package_name, total_dumps_successful,
                   processed_region_count>>

NextFilter == ShouldScan

InitFilter ==
    /\ alive = TRUE
    /\ exit_code = -1
    /\ disposition = [s \in Signals |-> "default"]
    /\ signal_handlers_installed = 0
    /\ signal_handler_stack = NoStack
    /\ signal_handler_mutex = 0
    /\ install_log = <<>>
    /\ recovery_buffer_ready = [s \in Threads |-> 0]
    /\ signal_recovery_buffer = [s \in Threads |-> "unset"]
    /\ apc = [t \in Threads |-> "idle"]
    /\ areq = [t \in Threads |-> NoRequest]
    /\ acall = [t \in Threads |-> NoCall]
    /\ dumped_files_registry = NullArray
    /\ dumped_files_count = 0
    /\ dumped_files_capacity = 0
    /\ dump_registry_mutex = 0
    /\ reg_log = <<>>
    /\ reg_last = NoCallYet
    /\ reg_pre = EmptyRegistry
    /\ wpc = [w \in Workers |-> "idle"]
    /\ wjob = [w \in Workers |-> NoJob]
    /\ wop = [w \in Workers |-> NoOp]
    /\ wret = [w \in Workers |-> -1]
    /\ wdone = [w \in Workers |-> -1]
    /\ out_dir = {}
    /\ files_written = 0
    /\ hdr = 0 /\ hin = 0 /\ hout = -1
    /\ dmem = 0 /\ dpc = 0 /\ detection_result = 0 /\ dlog = <<>>
    /\ \E r \in FilterRegions : memory_regions = << r >>
    /\ rpc = "filter"
    /\ package_name \in PackageNames
    /\ total_dumps_successful = 0
    /\ processed_region_count = 0 /\ rlog = <<>>
    /\ maps_file = <<>> /\ regions_array = 0 /\ region_count = 0
    /\ regions_capacity = 0 /\ mpc = 0
    /\ sha_ctx = 0 /\ sha_feed = 0 /\ sha_pc = 0

SpecFilter == InitFilter /\ [][NextFilter]_vars

\* The path contains one of the exclusion substrings.
HasExclusionSubstring(path_name) ==
    \E n \in 1..Len(excluded_path_patterns) : Contains(path_name, excluded_path_patterns[n])

\* The path contains .dex, .vdex, .apk, dalvik, jit or the (known) package name.
HasOverrideSubstring(path_name, package) ==
    \/ \E o \in { <<".", "d", "e", "x">>, <<".", "v", "d", "e", "x">>,
                  <<".", "a", "p", "k">>, <<"d", "a", "l", "v", "i", "k">>,
                  <<"j", "i", "t">> } : Contains(path_name, o)
    \/ (package # << >> /\ Contains(path_name, package))

\* The region passes the permission, size and probe checks.
PassesBasicChecks(r) ==
    /\ HasReadPermission(r.permissions)
    /\ r.end_address - r.start_address >= 1024
    /\ r.end_address - r.start_address <= 200 * 1024 * 1024
    /\ r.readable

\* C15: with region filtering enabled, should_scan_memory_region returns 1
\* exactly when the region has 'r' permission, its size is in [1024, 200 MiB],
\* the one-byte probe succeeds, and its path is empty, or contains no exclusion
\* substring, or contains an override substring (.dex, .vdex, .apk, dalvik, jit
\* or the current package name); no override rescues a region that fails the
\* permission, size or probe checks.
C15_ShouldScanExactlyWhenAcceptedAndNotExcluded ==
    rpc = "filtered" =>
        LET r == memory_regions[1]
        IN  /\ rlog[1] \in {0, 1}
            /\ rlog[1] = 1 <=>
                  /\ PassesBasicChecks(r)
                  /\ \/ r.path_name = << >>
                     \/ ~HasExclusionSubstring(r.path_name)
                     \/ HasOverrideSubstring(r.path_name, package_name)
            /\ ~PassesBasicChecks(r) => rlog[1] = 0

\* A region under /system/framework, an excluded directory, whose path ends in
\* .vdex was accepted.
C15_Witness ==
    /\ rpc = "filtered"
    /\ memory_regions[1].path_name = BootVdexPath
    /\ HasExclusionSubstring(BootVdexPath)
    /\ rlog[1] = 1

(***************************************************************************)
(* is_potential_dex_region (memory_scanner.c) and the two passes of        *)
(* execute_memory_dumping (main.c)                                         *)
(***************************************************************************)

\* memory_scanner.c lines 211-213, the indicators looked for in an "[anon:" region.
AnonIndicators ==
    { <<"d", "a", "l", "v", "i", "k">>,
      <<"j", "i", "t">>,
      <<"d", "e", "x">> }
AnonPrefix == <<"[", "a", "n", "o", "n", ":">>
\* memory_scanner.c lines 221-224 and 234-264, the patterns that mark a region.
PotentialPatterns ==
    { <<".", "d", "e", "x">>,
      <<".", "v", "d", "e", "x">>,
      <<".", "o", "d", "e", "x">>,
      <<".", "a", "r", "t">>,
      <<"o", "a", "t", "/">>,
      <<"d", "a", "l", "v", "i", "k", "-", "c", "a", "c", "h", "e">>,
      <<".", "a", "p", "k">>,
      <<".", "j", "a", "r">>,
      <<".", "z", "i", "p">>,
      <<"/", "d", "a", "t", "a", "/", "a", "p", "p", "/">>,
      <<"/", "d", "a", "t", "a", "/", "d", "a", "t", "a", "/">>,
      <<"/", "d", "a", "t", "a", "/", "u", "s", "e", "r", "/">>,
      <<"/", "d", "a", "t", "a", "/", "u", "s", "e", "r", "_", "d", "e", "/">>,
      <<"/", "d", "a", "t", "a", "/", "l", "o", "c", "a", "l", "/", "t", "m", "p", "/">>,
      <<"/", "c", "a", "c", "h", "e", "/">>,
      <<"c", "o", "d", "e", "_", "c", "a", "c", "h", "e">>,
      <<"c", "l", "a", "s", "s", "e", "s">>,
      <<"b", "a", "s", "e", ".", "a", "p", "k">>,
      <<"s", "p", "l", "i", "t", "_", "c", "o", "n", "f", "i", "g">> }

\* is_potential_dex_region, lines 195-269.  The package name is compared
\* whenever the pointer is not NULL, which it never is (line 229).
is_potential_dex_region(memory_region, package) ==
    LET region_path == memory_region.path_name
    IN  IF Len(region_path) = 0 THEN 1
        ELSE IF /\ Contains(region_path, AnonPrefix)
                /\ \E a \in AnonIndicators : Contains(region_path, a) THEN 1
        ELSE IF \E q \in { <<".", "d", "e", "x">>, <<".", "v", "d", "e", "x">>,
                           <<".", "o", "d", "e", "x">>, <<".", "a", "r", "t">> } :
                   Contains(region_path, q) THEN 1
        ELSE IF Contains(region_path, package) THEN 1
        ELSE IF \E q \in PotentialPatterns : Contains(region_path, q) THEN 1
        ELSE 0

\* The regions of the runs: bounds and permissions that pass the basic checks,
\* a path, whether the first byte can be read, and whether detection finds a
\* payload in the region.
RunRegions ==
    { [ start_address |-> RegionBase, end_address |-> RegionBase + 2 * PageSize,
        permissions |-> ReadOnlyPermissions, path_name |-> q.path_name,
        readable |-> q.readable, payload |-> q.payload ] :
        q \in { [path_name |-> AppApkPath, readable |-> TRUE, payload |-> "dex"],
                [path_name |-> AnonymousPath, readable |-> TRUE, payload |-> "none"],
                [path_name |-> FontPath, readable |-> TRUE, payload |-> "dex"],
                [path_name |-> FontPath, readable |-> TRUE, payload |-> "none"],
                [path_name |-> SystemLibraryPath, readable |-> TRUE, payload |-> "dex"],
                [path_name |-> AppDataPath, readable |-> FALSE, payload |-> "none"] } }

\* The most regions a run enumerates.
MaxRegions == 3

\* The region at rpc.i belongs to the pass at hand: potential regions in the
\* first pass, the others in the second, and accepted by the filter (main.c
\* lines 106-107 and 119-120).
SelectedInPass ==
    LET r == memory_regions[rpc.i]
    IN  /\ IF rpc.pass = 1 THEN is_potential_dex_region(r, package_name) = 1
                           ELSE is_potential_dex_region(r, package_name) = 0
        /\ should_scan_memory_region(r, package_name) = 1

\* Which count decides whether the second pass runs.
SecondPassNeeded(dumps, processed) == dumps = 0

\* main.c lines 93-96: parse_memory_regions returned no region.
ReturnNoRegions ==
    /\ UNCHANGED <<accVars, regVars, wrkVars, hdrVars, detVars, mapVars, shaVars>>
    /\ rpc.pass = 1 /\ rpc.i = 1
    /\ Len(memory_regions) = 0
    /\ rpc' = [rpc EXCEPT !.pass = 3]
    /\ UNCHANGED <<memory_regions, package_name, total_dumps_successful,
                   processed_region_count, rlog>>

\* The loop passes a region that is not selected in this pass.
SkipRegion ==
    /\ UNCHANGED <<accVars, regVars, wrkVars, hdrVars, detVars, mapVars, shaVars>>
    /\ rpc.pass \in {1, 2}
    /\ Len(memory_regions) > 0
    /\ rpc.i <= Len(memory_regions)
    /\ ~SelectedInPass
    /\ rpc' = [rpc EXCEPT !.i = @ + 1]
    /\ UNCHANGED <<memory_regions, package_name, total_dumps_successful,
                   processed_region_count, rlog>>

\* scan_and_dump_region on a selected region (main.c lines 27-74): the filter
\* again, detection, and when a payload is detected the copy and the dump,
\* which succeed or fail (no copy, a duplicate or excluded digest, a failed
\* write).
ScanAndDumpRegion ==
    /\ UNCHANGED <<accVars, regVars, wrkVars, hdrVars, detVars, mapVars, shaVars>>
    /\ rpc.pass \in {1, 2}
    /\ Len(memory_regions) > 0
    /\ rpc.i <= Len(memory_regions)
    /\ SelectedInPass
    /\ LET r == memory_regions[rpc.i]
           detected == IF r.payload = "dex" THEN 1 ELSE 0
       IN  \E dump_successful \in {0, 1} :
              /\ dump_successful = 1 => detected = 1
              /\ should_scan_memory_region(r, package_name) = 1
              /\ rlog' = Append(rlog, [i |-> rpc.i, pass |-> rpc.pass,
                                        detected |-> detected,
                                        dumped |-> dump_successful])
              /\ total_dumps_successful' = total_dumps_successful + dump_successful
    /\ processed_region_count' = processed_region_count + 1
    /\ rpc' = [rpc EXCEPT !.i = @ + 1]
    /\ UNCHANGED <<memory_regions, package_name>>

\* The first loop ended; line 116 decides whether the second runs.
EndFirstPass ==
    /\ UNCHANGED <<accVars, regVars, wrkVars, hdrVars, detVars, mapVars, shaVars>>
    /\ rpc.pass = 1
    /\ Len(memory_regions) > 0
    /\ rpc.i > Len(memory_regions)
    /\ IF SecondPassNeeded(total_dumps_successful, processed_region_count)
       THEN rpc' = [pass |-> 2, i |-> 1, second_pass |-> TRUE]
       ELSE rpc' = [rpc EXCEPT !.pass = 3]
    /\ UNCHANGED <<memory_regions, package_name, total_dumps_successful,
                   processed_region_count, rlog>>

\* The second loop ended; the function returns.
EndSecondPass ==
    /\ UNCHANGED <<accVars, regVars, wrkVars, hdrVars, detVars, mapVars, shaVars>>
    /\ rpc.pass = 2
    /\ rpc.i > Len(memory_regions)
    /\ rpc' = [rpc EXCEPT !.pass = 3]
    /\ UNCHANGED <<memory_regions, package_name, total_dumps_successful,
                   processed_region_count, rlog>>

NextRun ==
    \/ ReturnNoRegions
    \/ SkipRegion
    \/ ScanAndDumpRegion
    \/ EndFirstPass
    \/ EndSecondPass

\* execute_memory_dumping after parse_memory_regions returned (main.c lines
\* 91-102).
InitRun ==
    /\ alive = TRUE
    /\ exit_code = -1
    /\ disposition = [s \in Signals |-> "default"]
    /\ signal_handlers_installed = 0
    /\ signal_handler_stack = NoStack
    /\ signal_handler_mutex = 0
    /\ install_log = <<>>
    /\ recovery_buffer_ready = [s \in Threads |-> 0]
    /\ signal_recovery_buffer = [s \in Threads |-> "unset"]
    /\ apc = [t \in Threads |-> "idle"]
    /\ areq = [t \in Threads |-> NoRequest]
    /\ acall = [t \in Threads |-> NoCall]
    /\ dumped_files_registry = NullArray
    /\ dumped_files_count = 0
    /\ dumped_files_capacity = 0
    /\ dump_registry_mutex = 0
    /\ reg_log = <<>>
    /\ reg_last = NoCallYet
    /\ reg_pre = EmptyRegistry
    /\ wpc = [w \in Workers |-> "idle"]
    /\ wjob = [w \in Workers |-> NoJob]
    /\ wop = [w \in Workers |-> NoOp]
    /\ wret = [w \in Workers |-> -1]
    /\ wdone = [w \in Workers |-> -1]
    /\ out_dir = {}
    /\ files_written = 0
    /\ hdr = 0 /\ hin = 0 /\ hout = -1
    /\ dmem = 0 /\ dpc = 0 /\ detection_result = 0 /\ dlog = <<>>
    /\ \E n \in 0..MaxRegions : memory_regions \in [1..n -> RunRegions]
    /\ rpc = [pass |-> 1, i |-> 1, second_pass |-> FALSE]
    /\ package_name \in PackageNames
    /\ total_dumps_successful = 0
    /\ processed_region_count = 0
    /\ rlog = <<>>
    /\ maps_file = <<>> /\ regions_array = 0 /\ region_count = 0
    /\ regions_capacity = 0 /\ mpc = 0
    /\ sha_ctx = 0 /\ sha_feed = 0 /\ sha_pc = 0

SpecRun == InitRun /\ [][NextRun]_vars

(***************************************************************************)
(* Claims about the passes                                                 *)
(***************************************************************************)

\* execute_memory_dumping has returned.
RunOver == rpc.pass = 3

\* The regions the filter accepts, the priority ones among them, and the
\* regions handed to detection so far.
Accepted ==
    { i \in 1..Len(memory_regions) :
        should_scan_memory_region(memory_regions[i], package_name) = 1 }
Priority ==
    { i \in 1..Len(memory_regions) :
        is_potential_dex_region(memory_regions[i], package_name) = 1 }
Handled == { rlog[n].i : n \in 1..Len(rlog) }

\* The ordering half of C16, which holds: an accepted priority region is handled
\* before any accepted non-priority region, only accepted regions are handled
\* and none twice.
PriorityRegionsAreHandledFirst ==
    /\ \A n, k \in 1..Len(rlog) :
          (rlog[n].i \in Priority /\ rlog[k].i \notin Priority) => n < k
    /\ \A n, k \in 1..Len(rlog) : rlog[n].i = rlog[k].i => n = k
    /\ Handled \subseteq Accepted
    /\ (\E k \in 1..Len(rlog) : rlog[k].i \notin Priority)
          => (Accepted \cap Priority) \subseteq Handled

\* C16: in one run of execute_memory_dumping the priority classification only
\* orders the work and never filters it: every region accepted by
\* should_scan_memory_region is handed to detection before the run ends, and
\* every accepted priority region is handled before any accepted non-priority
\* region.
C16_EveryAcceptedRegionIsScannedPriorityFirst ==
    /\ RunOver => Accepted \subseteq Handled
    /\ PriorityRegionsAreHandledFirst

\* Payloads were detected in the first pass.
FoundInFirstPass == \E n \in 1..Len(rlog) : rlog[n].pass = 1 /\ rlog[n].detected = 1

\* What does decide the second pass: no dump succeeded in the first pass.
SecondPassIffNothingDumped ==
    RunOver /\ Len(memory_regions) > 0 =>
        (rpc.second_pass <=>
            ~\E n \in 1..Len(rlog) : rlog[n].pass = 1 /\ rlog[n].dumped = 1)

\* C17: in one run of execute_memory_dumping the non-priority regions are
\* scanned if and only if no payload was found (detected) in the priority
\* regions during the whole first pass: a first pass that found a payload is
\* never followed by a second pass, and one that found none always is.
C17_SecondPassIffNothingFoundInFirstPass ==
    /\ \A n \in 1..Len(rlog) : rlog[n].pass = 2 => ~FoundInFirstPass
    /\ rpc.second_pass => ~FoundInFirstPass
    /\ (RunOver /\ Len(memory_regions) > 0 /\ ~FoundInFirstPass) => rpc.second_pass

(***************************************************************************)
(* parse_memory_regions (memory_scanner.c)                                 *)
(***************************************************************************)

\* Initial capacity of the regions array.
MAX_REGIONS_INITIAL_CAPACITY == 2
\* The most lines /proc/self/maps has.
MaxLines == 5

\* A line of /proc/self/maps is the sequence of its tokens; a token either
\* converts under its directive (and has a value) or does not.
Tok(v) == [ok |-> TRUE, v |-> v]
BadTok == [ok |-> FALSE, v |-> 0]

\* "2000-3000 r--p 00000000 fd:01 77 /data/app/com.example.app/base.apk"
FileBackedLine ==
    << Tok(8192), Tok(12288), Tok(ReadOnlyPermissions), Tok(0), Tok(253), Tok(1),
       Tok(77), Tok(AppApkPath) >>
\* "4000-5000 rw-p 00000000 00:00 0", no path
AnonymousLine ==
    << Tok(16384), Tok(20480), Tok(ReadWritePermissions), Tok(0), Tok(0), Tok(0),
       Tok(0) >>
\* "6000-7000 r--p 00001000 fd:01 78 /product/fonts/Roboto.ttf (deleted)"
DeletedFileLine ==
    << Tok(24576), Tok(28672), Tok(ReadOnlyPermissions), Tok(4096), Tok(253), Tok(1),
       Tok(78), Tok(FontPath), Tok(<<"(", "d", ")">>) >>
\* "8000-9000 ---p 00000000 fd:01 x": the inode does not convert
BrokenLine ==
    << Tok(32768), Tok(36864), Tok(NoPermissions), Tok(0), Tok(253), Tok(1), BadTok >>
\* "": an empty line
EmptyLine == << >>
MapLines == { FileBackedLine, AnonymousLine, DeletedFileLine, BrokenLine, EmptyLine }

\* The conversions of the format "%p-%p %4s %lx %x:%x %lu %255s", in order.
Directives ==
    << "start_address", "end_address", "permissions", "file_offset",
       "device_major", "device_minor", "inode_number", "path_name" >>

\* The number of leading tokens of the line that convert, from token n on.
RECURSIVE Converted(_, _)
Converted(map_line, n) ==
    IF n > Len(Directives) \/ n > Len(map_line) THEN 0
    ELSE IF ~map_line[n].ok THEN 0
    ELSE 1 + Converted(map_line, n + 1)

\* What sscanf returns: EOF (-1) when the input ends before the first
\* conversion, else the number of conversions made.
sscanf(map_line) == IF Len(map_line) = 0 THEN -1 ELSE Converted(map_line, 1)

\* memset(current_region, 0, sizeof(MemoryRegion)).
ZeroRegion ==
    [ start_address |-> 0, end_address |-> 0, permissions |-> << >>, file_offset |-> 0,
      device_major |-> 0, device_minor |-> 0, inode_number |-> 0, path_name |-> << >> ]

\* Memory that malloc or realloc returned and nothing was stored in yet.
Indeterminate == [ZeroRegion EXCEPT !.start_address = -1, !.end_address = -1]

\* The region after memset and sscanf: the first field_count members hold the
\* converted values, the others stay zero.
RECURSIVE Assign(_, _, _, _)
Assign(current_region, map_line, field_count, n) ==
    IF n > field_count THEN current_region
    ELSE Assign([current_region EXCEPT ![Directives[n]] = map_line[n].v],
                map_line, field_count, n + 1)

\* Lines 64 and 96: the tests on the count.
NeedsResizeOnePastTheEnd(count, capacity) == count > capacity
NeedsResize(count, capacity) == count >= capacity
IsValidLineOnlyWithPath(field_count) == field_count >= 8
IsValidLine(field_count) == field_count >= 7

\* The array after realloc to new_capacity: the old elements kept, the new
\* ones indeterminate.
Grown(array, new_capacity) ==
    [ cap |-> new_capacity,
      slot |-> [ n \in 0..(new_capacity - 1) |->
                   IF n < array.cap THEN array.slot[n] ELSE Indeterminate ] ]

\* *regions_array before the first allocation.
NoArray == [cap |-> 0, slot |-> [n \in {} |-> Indeterminate]]

\* Lines 43-59: fopen and the first malloc; either may fail and the call
\* returns 0.
OpenMaps ==
    /\ UNCHANGED <<accVars, regVars, wrkVars, hdrVars, detVars, runVars, shaVars>>
    /\ mpc.pc = "open"
    /\ \E fopenOk \in BOOLEAN, mallocOk \in BOOLEAN :
         IF fopenOk /\ mallocOk
         THEN /\ regions_array' = Grown(NoArray, regions_capacity)
              /\ mpc' = [mpc EXCEPT !.pc = "loop"]
         ELSE /\ regions_array' = NoArray
              /\ mpc' = [mpc EXCEPT !.pc = "returned", !.ret = 0]
    /\ UNCHANGED <<maps_file, region_count, regions_capacity>>

\* One iteration of the loop of lines 62-99: fgets, the resize, memset, sscanf
\* and the count.
ReadLine ==
    /\ UNCHANGED <<accVars, regVars, wrkVars, hdrVars, detVars, runVars, shaVars>>
    /\ mpc.pc = "loop"
    /\ maps_file # << >>
    /\ maps_file' = Tail(maps_file)
    /\ LET map_line == Head(maps_file)
           resize == NeedsResize(region_count, regions_capacity)
           new_capacity == IF resize THEN regions_capacity * 2 ELSE regions_capacity
       IN  \E reallocOk \in BOOLEAN :
             /\ ~resize => reallocOk
             /\ regions_capacity' = new_capacity
             /\ IF resize /\ ~reallocOk
                THEN /\ mpc' = [mpc EXCEPT !.pc = "returned", !.ret = region_count,
                                           !.grow_failed = TRUE]
                     /\ UNCHANGED <<regions_array, region_count>>
                ELSE LET array == IF resize THEN Grown(regions_array, new_capacity)
                                            ELSE regions_array
                         field_count == sscanf(map_line)
                         parsed == Assign(ZeroRegion, map_line, field_count, 1)
                         current_region ==
                             IF field_count = 7 THEN [parsed EXCEPT !.path_name = << >>]
                                                ELSE parsed
                     IN  /\ regions_array' =
                               [array EXCEPT !.slot[region_count] = current_region]
                         /\ region_count' = IF IsValidLine(field_count)
                                            THEN region_count + 1 ELSE region_count
                         /\ mpc' = [mpc EXCEPT !.read = Append(@, map_line),
                                               !.last_write = region_count]

\* fgets returns NULL: lines 101-103.
EndOfMaps ==
    /\ UNCHANGED <<accVars, regVars, wrkVars, hdrVars, detVars, runVars, shaVars>>
    /\ mpc.pc = "loop"
    /\ maps_file = << >>
    /\ mpc' = [mpc EXCEPT !.pc = "returned", !.ret = region_count]
    /\ UNCHANGED <<maps_file, regions_array, region_count, regions_capacity>>

NextMaps ==
    \/ OpenMaps
    \/ ReadLine
    \/ EndOfMaps

\* parse_memory_regions entered (lines 41-51) with some content of
\* /proc/self/maps.
InitMaps ==
    /\ alive = TRUE
    /\ exit_code = -1
    /\ disposition = [s \in Signals |-> "default"]
    /\ signal_handlers_installed = 0
    /\ signal_handler_stack = NoStack
    /\ signal_handler_mutex = 0
    /\ install_log = <<>>
    /\ recovery_buffer_ready = [s \in Threads |-> 0]
    /\ signal_recovery_buffer = [s \in Threads |-> "unset"]
    /\ apc = [t \in Threads |-> "idle"]
    /\ areq = [t \in Threads |-> NoRequest]
    /\ acall = [t \in Threads |-> NoCall]
    /\ dumped_files_registry = NullArray
    /\ dumped_files_count = 0
    /\ dumped_files_capacity = 0
    /\ dump_registry_mutex = 0
    /\ reg_log = <<>>
    /\ reg_last = NoCallYet
    /\ reg_pre = EmptyRegistry
    /\ wpc = [w \in Workers |-> "idle"]
    /\ wjob = [w \in Workers |-> NoJob]
    /\ wop = [w \in Workers |-> NoOp]
    /\ wret = [w \in Workers |-> -1]
    /\ wdone = [w \in Workers |-> -1]
    /\ out_dir = {}
    /\ files_written = 0
    /\ hdr = 0 /\ hin = 0 /\ hout = -1
    /\ dmem = 0 /\ dpc = 0 /\ detection_result = 0 /\ dlog = <<>>
    /\ memory_regions = <<>> /\ rpc = 0 /\ package_name = <<>>
    /\ total_dumps_successful = 0
    /\ processed_region_count = 0 /\ rlog = <<>>
    /\ \E n \in 0..MaxLines : maps_file \in [1..n -> MapLines]
    /\ regions_array = NoArray
    /\ region_count = 0
    /\ regions_capacity = MAX_REGIONS_INITIAL_CAPACITY
    /\ mpc = [pc |-> "open", lines |-> maps_file, read |-> << >>, last_write |-> -1,
              grow_failed |-> FALSE, ret |-> -1]
    /\ sha_ctx = 0 /\ sha_feed = 0 /\ sha_pc = 0

SpecMaps == InitMaps /\ [][NextMaps]_vars

\* The number of fields of a line that are parsed: the conversions up to the
\* first token that is missing or does not convert.
FieldsParsed(map_line) ==
    Cardinality({ j \in 1..8 : j <= Len(map_line) /\ \A n \in 1..j : map_line[n].ok })

HasSevenFields(map_line) == FieldsParsed(map_line) >= 7

\* The region a line with at least seven fields describes.
RegionOf(map_line) ==
    [ start_address |-> map_line[1].v, end_address |-> map_line[2].v,
      permissions |-> map_line[3].v, file_offset |-> map_line[4].v,
      device_major |-> map_line[5].v, device_minor |-> map_line[6].v,
      inode_number |-> map_line[7].v,
      path_name |-> IF FieldsParsed(map_line) = 7 THEN << >> ELSE map_line[8].v ]

\* One region per line with at least seven fields, in the order of the lines.
RegionsOf(lines) ==
    LET kept == SelectSeq(lines, HasSevenFields)
    IN  [ n \in 1..Len(kept) |-> RegionOf(kept[n]) ]

\* The regions stored so far.
StoredRegions == [ n \in 1..region_count |-> regions_array.slot[n - 1] ]

MapsOver == mpc.pc = "returned"

\* C18: parse_memory_regions stores one region, in input order, for exactly
\* the lines from which at least seven fields are parsed, a seven-field line
\* with an empty path; a line with fewer fields changes no stored region and
\* does not end the pass: without an allocation failure every line is read
\* and the call returns the number of such lines.
C18_OneRegionPerLineWithSevenFields ==
    /\ StoredRegions = RegionsOf(mpc.read)
    /\ (MapsOver /\ ~mpc.grow_failed /\ regions_array.cap > 0) =>
          /\ mpc.read = mpc.lines
          /\ mpc.ret = Len(RegionsOf(mpc.lines))

\* A pass that met a line with fewer than seven fields between two kept lines,
\* the first of them a seven-field line.
C18_Witness ==
    /\ MapsOver
    /\ ~mpc.grow_failed
    /\ Len(mpc.read) = 3
    /\ mpc.read[1] = AnonymousLine
    /\ mpc.read[2] = BrokenLine
    /\ mpc.read[3] = DeletedFileLine
    /\ mpc.ret = 2
    /\ regions_array.slot[0].path_name = << >>
    /\ regions_array.slot[1].path_name = FontPath

\* C19: when growing the array fails the enumeration stops at that line and
\* the call returns the regions parsed before it, unmodified; no region is
\* ever written at an index at or beyond the allocated capacity.
C19_GrowthFailureKeepsTheParsedRegions ==
    /\ mpc.last_write < regions_array.cap
    /\ region_count <= regions_array.cap
    /\ mpc.grow_failed =>
          /\ MapsOver
          /\ Len(mpc.read) + 1 + Len(maps_file) = Len(mpc.lines)
          /\ mpc.read = SubSeq(mpc.lines, 1, Len(mpc.read))
          /\ maps_file = SubSeq(mpc.lines, Len(mpc.read) + 2, Len(mpc.lines))
          /\ mpc.ret = region_count
          /\ StoredRegions = RegionsOf(mpc.read)
          /\ regions_array.cap = region_count

\* A growth failure at the line after the array filled up, with lines left.
C19_Witness ==
    /\ mpc.grow_failed
    /\ mpc.ret = MAX_REGIONS_INITIAL_CAPACITY
    /\ maps_file # << >>
    /\ BrokenLine \in { mpc.read[n] : n \in 1..Len(mpc.read) }

(***************************************************************************)
(* SHA-1 (sha1.c)                                                          *)
(***************************************************************************)

\* A uint32_t is the pair <<high, low>> of its sixteen-bit halves.
RECURSIVE And16(_, _)
And16(a, b) ==
    IF a = 0 \/ b = 0 THEN 0
    ELSE ((a % 2) * (b % 2)) + (2 * And16(a \div 2, b \div 2))
Or16(a, b) == a + b - And16(a, b)
Xor16(a, b) == a + b - 2 * And16(a, b)
And32(x, y) == << And16(x[1], y[1]), And16(x[2], y[2]) >>
Or32(x, y) == << Or16(x[1], y[1]), Or16(x[2], y[2]) >>
Xor32(x, y) == << Xor16(x[1], y[1]), Xor16(x[2], y[2]) >>
Not32(x) == << Limb - 1 - x[1], Limb - 1 - x[2] >>
Add32(x, y) ==
    LET low == x[2] + y[2]
    IN  << (x[1] + y[1] + (low \div Limb)) % Limb, low % Limb >>

\* Lines 31-33: (value << shift) | (value >> (32 - shift)).
RECURSIVE sha1_rotate_left(_, _)
sha1_rotate_left(value, shift) ==
    IF shift >= 16 THEN sha1_rotate_left(<< value[2], value[1] >>, shift - 16)
    ELSE LET up == 2 ^ shift
             down == 2 ^ (16 - shift)
         IN  << ((value[1] * up) % Limb) + (value[2] \div down),
                ((value[2] * up) % Limb) + (value[1] \div down) >>

\* Lines 13-19: the state sha1_init leaves; the buffer is not written, its
\* bytes are not read before they are stored.
sha1_init ==
    [ h |-> << <<26437, 8961>>, <<61389, 43913>>, <<39098, 56574>>,
               <<4146, 21622>>, <<50130, 57840>> >>,
      buffer |-> [ n \in 0..63 |-> 0 ],
      buffer_len |-> 0,
      total_len |-> 0 ]

\* Lines 48-53: the sixteen big-endian words of a block; w[i] of the code is
\* element i + 1.
BlockWords(block) ==
    [ n \in 1..16 |-> << block[4 * (n - 1)] * 256 + block[4 * (n - 1) + 1],
                         block[4 * (n - 1) + 2] * 256 + block[4 * (n - 1) + 3] >> ]

\* Lines 56-58: the message schedule, w[first] to w[last] appended in
\* ascending order, the lower half before the upper half.
RECURSIVE Schedule(_, _, _)
Schedule(w, first, last) ==
    IF first = last
    THEN Append(w, sha1_rotate_left(
                     Xor32(Xor32(Xor32(w[first - 2], w[first - 7]), w[first - 13]),
                           w[first - 15]), 1))
    ELSE LET middle == (first + last) \div 2
             lower == Schedule(w, first, middle)
         IN  IF Len(lower) = middle + 1 THEN Schedule(lower, middle + 1, last)
             ELSE lower

\* Lines 72-84: the function and the constant of round i.
RoundF(i, b, c, d) ==
    IF i < 20 THEN Or32(And32(b, c), And32(Not32(b), d))
    ELSE IF i < 40 THEN Xor32(Xor32(b, c), d)
    ELSE IF i < 60 THEN Or32(Or32(And32(b, c), And32(b, d)), And32(c, d))
    ELSE Xor32(Xor32(b, c), d)
RoundK(i) ==
    IF i < 20 THEN <<23170, 31129>>
    ELSE IF i < 40 THEN <<28377, 60321>>
    ELSE IF i < 60 THEN <<36635, 48348>>
    ELSE <<51810, 49622>>

\* Lines 87-92: round i on <<a, b, c, d, e>>.
Round(v, w, i) ==
    LET temp == Add32(Add32(Add32(Add32(sha1_rotate_left(v[1], 5),
                                        RoundF(i, v[2], v[3], v[4])),
                                  v[5]), RoundK(i)), w[i + 1])
    IN  << temp, v[1], sha1_rotate_left(v[2], 30), v[3], v[4] >>

\* Lines 68-93: rounds first to last, in ascending order, the lower half
\* before the upper half.
RECURSIVE Rounds(_, _, _, _)
Rounds(v, w, first, last) ==
    IF first = last THEN Round(v, w, first)
    ELSE LET middle == (first + last) \div 2
             lower == Rounds(v, w, first, middle)
         IN  IF Len(lower) = 5 THEN Rounds(lower, w, middle + 1, last)
             ELSE lower

\* Lines 44-101: the five hash words after the block.
sha1_process_block(h, block) ==
    LET w == Schedule(BlockWords(block), 16, 79)
        v == Rounds(h, w, 0, 79)
    IN  [ n \in 1..5 |-> Add32(h[n], v[n]) ]

\* Line 114 and lines 118-119.
TotalLenAfter(total_len, len) == total_len + len
CopyLenIgnoresPending(buffer_len, len) == Min(64, len)
CopyLen(buffer_len, len) == Min(64 - buffer_len, len)

\* Lines 117-132: the loop of sha1_update over the bytes left of data.
RECURSIVE UpdateLoop(_, _)
UpdateLoop(ctx, data) ==
    IF Len(data) = 0 THEN ctx
    ELSE LET copy_len == CopyLen(ctx.buffer_len, Len(data))
             buffer == [ n \in 0..63 |->
                           IF n >= ctx.buffer_len /\ n < ctx.buffer_len + copy_len
                           THEN data[n - ctx.buffer_len + 1] ELSE ctx.buffer[n] ]
             buffer_len == ctx.buffer_len + copy_len
             rest == SubSeq(data, copy_len + 1, Len(data))
         IN  IF buffer_len = 64
             THEN UpdateLoop([ctx EXCEPT !.h = sha1_process_block(ctx.h, buffer),
                                         !.buffer = buffer, !.buffer_len = 0], rest)
             ELSE UpdateLoop([ctx EXCEPT !.buffer = buffer, !.buffer_len = buffer_len],
                             rest)

\* Lines 113-133.
sha1_update(ctx, data) ==
    UpdateLoop([ctx EXCEPT !.total_len = TotalLenAfter(@, Len(data))], data)

\* x >> (8 * n).
RECURSIVE ShiftRightBytes(_, _)
ShiftRightBytes(x, n) == IF n = 0 THEN x ELSE ShiftRightBytes(x \div 256, n - 1)

\* Lines 172-178: the four big-endian bytes of each hash word.
DigestBytes(h) ==
    [ n \in 1..20 |->
        LET word == h[((n - 1) \div 4) + 1]
            i == (n - 1) % 4
        IN  IF i = 0 THEN word[1] \div 256
            ELSE IF i = 1 THEN word[1] % 256
            ELSE IF i = 2 THEN word[2] \div 256
            ELSE word[2] % 256 ]

\* Lines 144-179: the padding, the length and the digest.
sha1_final(ctx) ==
    LET bit_len == ctx.total_len * 8
        marked == [ctx.buffer EXCEPT ![ctx.buffer_len] = 128]
        marked_len == ctx.buffer_len + 1
        spills == marked_len > 56
        spilled == [ n \in 0..63 |-> IF n < marked_len THEN marked[n] ELSE 0 ]
        h1 == IF spills THEN sha1_process_block(ctx.h, spilled) ELSE ctx.h
        buffer1 == IF spills THEN spilled ELSE marked
        len1 == IF spills THEN 0 ELSE marked_len
        last == [ n \in 0..63 |->
                    IF n < len1 THEN buffer1[n]
                    ELSE IF n < 56 THEN 0
                    ELSE ShiftRightBytes(bit_len, 63 - n) % 256 ]
    IN  DigestBytes(sha1_process_block(h1, last))

\* Lines 190-195.
compute_sha1_checksum(data) == sha1_final(sha1_update(sha1_init, data))

\* The longest message hashed.
MaxMessageLen == 130
PatternByte(n) == ((n * 37) + 11) % 256
Abc == << 97, 98, 99 >>
MessageLengths == {0, 55, 56, 63, 64, 65, MaxMessageLen}
Messages == {Abc} \cup { [ n \in 1..len |-> PatternByte(n) ] : len \in MessageLengths }
\* The chunk lengths a caller passes when left bytes remain.
ChunkLengths(left) == { len \in {0, 1, 2, 7, 63, 64, 65, left} : len <= left }

\* One call sha1_update(&ctx, data + pos, len) of the incremental use.
Sha1Update ==
    /\ UNCHANGED <<accVars, regVars, wrkVars, hdrVars, detVars, runVars, mapVars>>
    /\ sha_pc.pc = "feeding"
    /\ \E len \in ChunkLengths(Len(sha_feed.data) - sha_feed.pos) :
         /\ sha_ctx' = sha1_update(sha_ctx,
                                   SubSeq(sha_feed.data, sha_feed.pos + 1,
                                          sha_feed.pos + len))
         /\ sha_feed' = [sha_feed EXCEPT
                           !.pos = @ + len,
                           !.empty = @ \/ len = 0,
                           !.crossing = @ \/ ( /\ sha_feed.pos % 64 # 0
                                               /\ (sha_feed.pos % 64) + len > 64 )]
    /\ UNCHANGED sha_pc

\* sha1_final(&ctx, digest) once every byte was fed.
Sha1Final ==
    /\ UNCHANGED <<accVars, regVars, wrkVars, hdrVars, detVars, runVars, mapVars>>
    /\ sha_pc.pc = "feeding"
    /\ sha_feed.pos = Len(sha_feed.data)
    /\ sha_pc' = [pc |-> "final", digest |-> sha1_final(sha_ctx)]
    /\ UNCHANGED <<sha_ctx, sha_feed>>

NextSha ==
    \/ Sha1Update
    \/ Sha1Final

\* After sha1_init(&ctx), with a message to feed.
InitSha ==
    /\ alive = TRUE
    /\ exit_code = -1
    /\ disposition = [s \in Signals |-> "default"]
    /\ signal_handlers_installed = 0
    /\ signal_handler_stack = NoStack
    /\ signal_handler_mutex = 0
    /\ install_log = <<>>
    /\ recovery_buffer_ready = [s \in Threads |-> 0]
    /\ signal_recovery_buffer = [s \in Threads |-> "unset"]
    /\ apc = [t \in Threads |-> "idle"]
    /\ areq = [t \in Threads |-> NoRequest]
    /\ acall = [t \in Threads |-> NoCall]
    /\ dumped_files_registry = NullArray
    /\ dumped_files_count = 0
    /\ dumped_files_capacity = 0
    /\ dump_registry_mutex = 0
    /\ reg_log = <<>>
    /\ reg_last = NoCallYet
    /\ reg_pre = EmptyRegistry
    /\ wpc = [w \in Workers |-> "idle"]
    /\ wjob = [w \in Workers |-> NoJob]
    /\ wop = [w \in Workers |-> NoOp]
    /\ wret = [w \in Workers |-> -1]
    /\ wdone = [w \in Workers |-> -1]
    /\ out_dir = {}
    /\ files_written = 0
    /\ hdr = 0 /\ hin = 0 /\ hout = -1
    /\ dmem = 0 /\ dpc = 0 /\ detection_result = 0 /\ dlog = <<>>
    /\ memory_regions = <<>> /\ rpc = 0 /\ package_name = <<>>
    /\ total_dumps_successful = 0
    /\ processed_region_count = 0 /\ rlog = <<>>
    /\ maps_file = <<>> /\ regions_array = 0 /\ region_count = 0
    /\ regions_capacity = 0 /\ mpc = 0
    /\ sha_ctx = sha1_init
    /\ \E data \in Messages :
         sha_feed = [data |-> data, pos |-> 0, empty |-> FALSE, crossing |-> FALSE]
    /\ sha_pc = [pc |-> "feeding", digest |-> << >>]

SpecSha == InitSha /\ [][NextSha]_vars

\* The bytes fed so far.
Fed == SubSeq(sha_feed.data, 1, sha_feed.pos)

\* C20: however the bytes are split into chunks, the context after the chunks
\* fed so far (the hash words after the blocks compressed, the pending bytes
\* and total_len) is the one a single sha1_update of those bytes gives, and
\* the digest after sha1_final is the twenty bytes compute_sha1_checksum gives
\* for the whole sequence.
C20_DigestDoesNotDependOnChunking ==
    /\ sha_ctx = sha1_update(sha1_init, Fed)
    /\ sha_pc.pc = "final" =>
          /\ Len(sha_pc.digest) = 20
          /\ sha_pc.digest = compute_sha1_checksum(sha_feed.data)

\* SHA-1 of "abc", a9993e36 4706816a ba3e2571 7850c26c 9cd0d89d, reached with
\* an empty chunk among the chunks.
C20_Witness ==
    /\ sha_pc.pc = "final"
    /\ sha_feed.data = Abc
    /\ sha_feed.empty
    /\ sha_pc.digest = << 169, 153, 62, 54, 71, 6, 129, 106, 186, 62, 37, 113,
                          120, 80, 194, 108, 156, 208, 216, 157 >>

(***************************************************************************)
(* scan_and_dump_region (main.c) run twice on one region by one task       *)
(***************************************************************************)

\* The region's memory: a payload at offset 16, at the start, behind a header
\* with a bad endian tag, or none; and a region too small for the payload.
TwiceMemories ==
    { m \in Memories :
        /\ m.holes = {}
        /\ \/ m.size = 2064 /\ m.words = HeaderWords(16, GoodHeader)
           \/ m.size = 2064 /\ m.words = HeaderWords(0, GoodHeader)
           \/ m.size = 1040 /\ m.words = HeaderWords(16, SmallHeader)
           \/ m.size = 2064 /\ m.words = HeaderWords(0, SwappedEndianHeader)
           \/ m.size = 1040 /\ m.words = NoWords }

\* Digests the payload of the region may have; 9 is on the exclusion list.
PayloadDigests == Digests \cup ExcludedDigests

\* The registries earlier dumps may have left: up to MAX_DUMPED_FILES entries,
\* of a file-backed region and of an anonymous one.
PriorEntries ==
    UNION { [1..n -> { [inode_number |-> 5, sha1_digest |-> 2],
                       [inode_number |-> 0, sha1_digest |-> 1] }] :
            n \in 0..MAX_DUMPED_FILES }
RegistryOf(prior) ==
    IF Len(prior) = 0 THEN EmptyRegistry
    ELSE [ registry |-> [null |-> FALSE,
                         slot |-> [i \in Slots |-> IF i < Len(prior) THEN prior[i + 1]
                                                   ELSE Uninit]],
           count |-> Len(prior), capacity |-> MAX_DUMPED_FILES ]

\* What the environment does during one call of dump_memory_to_file: whether
\* the directory can be listed, how the write ends, whether realloc succeeds.
DumpOutcomes ==
    [ dirOk : BOOLEAN, write : {"open_failed", "short_write", "written"},
      reallocOk : BOOLEAN ]

\* is_sha1_duplicate_in_directory, registry_manager.c lines 160-260: 0 when
\* the directory cannot be opened, else whether a file has the digest.
is_sha1_duplicate_in_directory(dir, sha1_digest, dirOk) ==
    IF ~dirOk THEN 0 ELSE IF sha1_digest \in dir THEN 1 ELSE 0

\* dump_memory_to_file, file_utils.c lines 300-374, called by the only task:
\* its result, the registry and the directory after it, the number of files it
\* added and whether it stored a registry entry.
DumpReturns(ret, S, dir, files, stored) ==
    [ret |-> ret, S |-> S, dir |-> dir, files |-> files, stored |-> stored]
\* Line 302: the inode check is made for every region, anonymous ones included.
ChecksInodeOfEveryRegion(inode_number) == TRUE

\* Line 302: memory_region->inode_number != 0.
ChecksInode(inode_number) == inode_number # 0

dump_memory_to_file(S, dir, inode_number, sha1_digest, data_size, env) ==
    IF ChecksInode(inode_number) /\ is_file_already_dumped(S, inode_number) = 1
    THEN DumpReturns(0, S, dir, 0, FALSE)
    ELSE IF data_size < DEX_MIN_FILE_SIZE \/ data_size > DEX_MAX_FILE_SIZE
    THEN DumpReturns(0, S, dir, 0, FALSE)
    ELSE IF is_sha1_excluded(sha1_digest) = 1
    THEN DumpReturns(0, S, dir, 0, FALSE)
    ELSE IF is_checksum_already_dumped(S, sha1_digest) = 1
    THEN DumpReturns(0, S, dir, 0, FALSE)
    ELSE IF is_sha1_duplicate_in_directory(dir, sha1_digest, env.dirOk) = 1
    THEN DumpReturns(0, S, dir, 0, FALSE)
    ELSE IF env.write # "written"
    THEN DumpReturns(0, S, dir, 0, FALSE)
    ELSE LET r == register_dumped_file_with_checksum(S, inode_number, sha1_digest,
                                                     env.reallocOk)
         IN  DumpReturns(1, r.S, dir \cup {sha1_digest}, 1, r.stored)

\* create_memory_copy, memory_scanner.c lines 282-299: NULL for a size of 0 or
\* above DEX_MAX_FILE_SIZE, or when malloc fails.
create_memory_copy(copy_size, mallocOk) ==
    IF copy_size = 0 \/ copy_size > DEX_MAX_FILE_SIZE \/ ~mallocOk THEN NULL ELSE 1

\* scan_and_dump_region returns: the second run follows the first.
EndOfRun == [rpc EXCEPT !.pc = IF rpc.run = 2 THEN "done" ELSE "detect", !.run = 2]

\* main.c lines 31-59: the filter, detection and the copy of the payload; the
\* run ends with 0 unless all three succeed.
TwiceDetect ==
    /\ UNCHANGED <<accVars, regVars, wrkVars, hdrVars, mapVars, shaVars>>
    /\ rpc.pc = "detect"
    /\ LET found == perform_comprehensive_dex_detection(dmem)
       IN  \E mallocOk \in BOOLEAN :
             IF should_scan_memory_region(memory_regions[1], package_name) = 0
             THEN /\ rlog' = Append(rlog, [detection |-> NotFound, ret |-> 0,
                                           files |-> 0, stored |-> FALSE])
                  /\ rpc' = EndOfRun
                  /\ detection_result' = NotFound
             ELSE IF found.ret = 0 \/ create_memory_copy(found.dex_size, mallocOk) = NULL
             THEN /\ rlog' = Append(rlog, [detection |-> found, ret |-> 0,
                                           files |-> 0, stored |-> FALSE])
                  /\ rpc' = EndOfRun
                  /\ detection_result' = found
             ELSE /\ detection_result' = found
                  /\ rpc' = [rpc EXCEPT !.pc = "dump"]
                  /\ UNCHANGED rlog
    /\ UNCHANGED <<dmem, dpc, dlog, memory_regions, package_name,
                   total_dumps_successful, processed_region_count>>

\* main.c lines 60-73: dump_memory_to_file on the copy, and the return.
TwiceDump ==
    /\ UNCHANGED <<accVars, hdrVars, mapVars, shaVars>>
    /\ rpc.pc = "dump"
    /\ \E env \in DumpOutcomes :
         LET d == dump_memory_to_file(Registry, out_dir, memory_regions[1].inode_number,
                                      rpc.digest, detection_result.dex_size, env)
         IN  /\ dumped_files_registry' = d.S.registry
             /\ dumped_files_count' = d.S.count
             /\ dumped_files_capacity' = d.S.capacity
             /\ out_dir' = d.dir
             /\ files_written' = files_written + d.files
             /\ rlog' = Append(rlog, [detection |-> detection_result, ret |-> d.ret,
                                      files |-> d.files, stored |-> d.stored])
             /\ total_dumps_successful' = total_dumps_successful + d.ret
    /\ rpc' = EndOfRun
    /\ UNCHANGED <<dump_registry_mutex, reg_log, reg_last, reg_pre, wpc, wjob, wop,
                   wret, wdone, dmem, dpc, detection_result, dlog, memory_regions,
                   package_name, processed_region_count>>

NextTwice ==
    \/ TwiceDetect
    \/ TwiceDump

\* scan_and_dump_region about to run on a region of an application file or an
\* anonymous region, after earlier dumps.
InitTwice ==
    /\ alive = TRUE
    /\ exit_code = -1
    /\ disposition = [s \in Signals |-> "default"]
    /\ signal_handlers_installed = 0
    /\ signal_handler_stack = NoStack
    /\ signal_handler_mutex = 0
    /\ install_log = <<>>
    /\ recovery_buffer_ready = [s \in Threads |-> 0]
    /\ signal_recovery_buffer = [s \in Threads |-> "unset"]
    /\ apc = [t \in Threads |-> "idle"]
    /\ areq = [t \in Threads |-> NoRequest]
    /\ acall = [t \in Threads |-> NoCall]
    /\ \E prior \in PriorEntries, extra \in {{}, Digests} :
         /\ dumped_files_registry = RegistryOf(prior).registry
         /\ dumped_files_count = RegistryOf(prior).count
         /\ dumped_files_capacity = RegistryOf(prior).capacity
         /\ out_dir = { prior[n].sha1_digest : n \in 1..Len(prior) } \cup extra
    /\ dump_registry_mutex = 0
    /\ reg_log = <<>>
    /\ reg_last = NoCallYet
    /\ reg_pre = EmptyRegistry
    /\ wpc = 0 /\ wjob = 0 /\ wop = 0 /\ wret = 0 /\ wdone = 0
    /\ files_written = 0
    /\ hdr = 0 /\ hin = 0 /\ hout = -1
    /\ dmem \in TwiceMemories
    /\ dpc = 0 /\ detection_result = NotFound /\ dlog = <<>>
    /\ \E inode \in Inodes, path \in {AppApkPath, FontPath} :
         memory_regions =
            << [ start_address |-> RegionBase, end_address |-> RegionBase + dmem.size,
                 permissions |-> ReadOnlyPermissions, path_name |-> path,
                 readable |-> TRUE, payload |-> "none", inode_number |-> inode ] >>
    /\ \E digest \in PayloadDigests : rpc = [pc |-> "detect", run |-> 1, digest |-> digest]
    /\ package_name = AppPackage
    /\ total_dumps_successful = 0
    /\ processed_region_count = 0 /\ rlog = <<>>
    /\ maps_file = <<>> /\ regions_array = 0 /\ region_count = 0
    /\ regions_capacity = 0 /\ mpc = 0
    /\ sha_ctx = 0 /\ sha_feed = 0 /\ sha_pc = 0

SpecTwice == InitTwice /\ [][NextTwice]_vars

TwoRuns == rpc.pc = "done" /\ Len(rlog) = 2

\* Both runs report the same detection.
SameDetectionBothTimes ==
    TwoRuns => /\ rlog[1].detection = rlog[2].detection
               /\ rlog[1].ret = 1 => rlog[2].detection.ret = 1

InstallStep(t, call, signal_number) ==
    [thread |-> t, call |-> call, signal |-> signal_number]

\* if (!signal_handlers_installed), line 42.
InstallTestIgnoresTheFlag(installed) == TRUE

NotYetInstalled(installed) == installed = 0

\* Line 42, read under signal_handler_mutex: a call that finds the flag set
\* goes straight to the unlock of line 96.
InstallTest(t) ==
    /\ UNCHANGED <<regVars, wrkVars, hdrVars, restVars>>
    /\ alive /\ apc[t] = "i_body"
    /\ apc' = [apc EXCEPT ![t] = IF NotYetInstalled(signal_handlers_installed)
                                 THEN "i_stack" ELSE "i_unlock"]
    /\ UNCHANGED <<alive, exit_code, disposition, signal_handlers_installed,
                   signal_handler_stack, signal_handler_mutex, install_log,
                   recovery_buffer_ready, signal_recovery_buffer, areq, acall>>

\* Lines 44-62: the alternate stack. malloc when ss_sp is NULL; sigaltstack on
\* the block; free(ss_sp) and ss_sp = NULL when sigaltstack fails (lines 56-57).
\* ss_size and ss_flags are assigned before sigaltstack is called (lines 47-48).
AlternateStack(stack, mallocOk, altOk) ==
    IF stack.ss_sp # NULL THEN stack
    ELSE IF ~mallocOk THEN stack
    ELSE IF altOk
         THEN [stack EXCEPT !.ss_sp = 1, !.ss_size = 1,
                            !.allocs = @ + 1, !.registered = TRUE]
         ELSE [stack EXCEPT !.ss_sp = NULL, !.ss_size = 1,
                            !.allocs = @ + 1, !.frees = @ + 1]

\* The calls of lines 44-62 that took effect, in order.
AlternateStackSteps(t, stack, mallocOk, altOk) ==
    IF stack.ss_sp # NULL \/ ~mallocOk THEN <<>>
    ELSE IF altOk
         THEN <<InstallStep(t, "malloc", 0), InstallStep(t, "sigaltstack", 0)>>
         ELSE <<InstallStep(t, "malloc", 0), InstallStep(t, "free", 0)>>

InstallStack(t) ==
    /\ UNCHANGED <<regVars, wrkVars, hdrVars, restVars>>
    /\ alive /\ apc[t] = "i_stack"
    /\ \E mallocOk \in BOOLEAN, altOk \in BOOLEAN :
         /\ signal_handler_stack' = AlternateStack(signal_handler_stack, mallocOk, altOk)
         /\ install_log' = install_log \o
                AlternateStackSteps(t, signal_handler_stack, mallocOk, altOk)
    /\ apc' = [apc EXCEPT ![t] = "i_segv"]
    /\ UNCHANGED <<alive, exit_code, disposition, signal_handlers_installed,
                   signal_handler_mutex, recovery_buffer_ready,
                   signal_recovery_buffer, areq, acall>>

\* sigaction(SIGSEGV, ...), line 75, then sigaction(SIGBUS, ...), line 85, and
\* signal_handlers_installed = 1, line 93.
InstallSigaction(t) ==
    /\ UNCHANGED <<regVars, wrkVars, hdrVars, restVars>>
    /\ alive /\ apc[t] \in {"i_segv", "i_bus"}
    /\ LET signal_number == IF apc[t] = "i_segv" THEN SIGSEGV ELSE SIGBUS
       IN  /\ disposition' = [disposition EXCEPT ![signal_number] = "handler"]
           /\ install_log' = Append(install_log, InstallStep(t, "sigaction", signal_number))
    /\ signal_handlers_installed' =
           IF apc[t] = "i_bus" THEN 1 ELSE signal_handlers_installed
    /\ apc' = [apc EXCEPT ![t] = IF apc[t] = "i_segv" THEN "i_bus" ELSE "i_unlock"]
    /\ UNCHANGED <<alive, exit_code, signal_handler_stack, signal_handler_mutex,
                   recovery_buffer_ready, signal_recovery_buffer, areq, acall>>

\* SIGSEGV or SIGBUS delivered to thread t while it is outside
\* read_memory_safely (a fault of the host's own code): the installed handler
\* is entered on t, or, under the default disposition, the process is killed.
FaultElsewhere(t, signal_number) ==
    /\ UNCHANGED <<regVars, wrkVars, hdrVars, restVars>>
    /\ alive /\ apc[t] = "idle"
    /\ IF disposition[signal_number] = "handler"
       THEN /\ apc' = [apc EXCEPT ![t] = "handler"]
            /\ acall' = [acall EXCEPT ![t].sig = signal_number]
            /\ UNCHANGED <<alive, exit_code>>
       ELSE /\ alive' = FALSE
            /\ exit_code' = signal_number
            /\ UNCHANGED <<apc, acall>>
    /\ UNCHANGED <<disposition, signal_handlers_installed, signal_handler_stack,
                   signal_handler_mutex, install_log, recovery_buffer_ready,
                   signal_recovery_buffer, areq>>

\* The calls made while the installation is followed step by step: one that
\* traps in a probe and one that traps inside memcpy.
SignalRequests ==
    {r \in Requests : r.src \in {PageSize, 4 * PageSize - 8}}

NextSignals ==
    \/ \E t \in Threads, r \in SignalRequests : ReadMemorySafely(t, r)
    \/ \E t \in Threads : ArmCheckpoint(t)
    \/ \E t \in Threads : ProbeFirst(t)
    \/ \E t \in Threads : ProbeLast(t)
    \/ \E t \in Threads : InstallLock(t)
    \/ \E t \in Threads : InstallTest(t)
    \/ \E t \in Threads : InstallStack(t)
    \/ \E t \in Threads : InstallSigaction(t)
    \/ \E t \in Threads : InstallUnlock(t)
    \/ \E t \in Threads : Memcpy(t)
    \/ \E t \in Threads : Handler(t)
    \/ \E t \in Threads : Recover(t)
    \/ \E t \in Threads, signal_number \in Signals : FaultElsewhere(t, signal_number)

SpecSignals == InitAccess /\ [][NextSignals]_vars

(***************************************************************************)
(* Claims about the handler and its installation, checked under SpecSignals *)
(***************************************************************************)

\* The recovery point thread t set up last: the else branch of its sigsetjmp.
RecoveryPoint(t) ==
    IF signal_recovery_buffer[TlsSlot(t)] = "validate" THEN "v_recover" ELSE "c_recover"

\* C22: when memory_access_signal_handler runs on a thread whose checkpoint is
\* not armed, the process ends with exit code 128 + signal number and no thread
\* ever takes another step (none resumes at a recovery point); when the
\* checkpoint is armed, the handler disarms it and the thread resumes at its own
\* recovery point, from where the call returns 0.
C22_HandlerExitsUnarmedAndRecoversArmed ==
    [][ /\ alive
        /\ \A t \in Threads :
              Handler(t) =>
                 IF recovery_buffer_ready[TlsSlot(t)] = 0
                 THEN /\ ~alive'
                      /\ exit_code' = 128 + acall[t].sig
                      /\ apc'[t] = "handler"
                 ELSE /\ alive'
                      /\ recovery_buffer_ready'[TlsSlot(t)] = 0
                      /\ apc'[t] = RecoveryPoint(t)
                      /\ acall[t].site = signal_recovery_buffer[TlsSlot(t)]
        /\ \A t \in Threads :
              (apc[t] \in {"v_recover", "c_recover"} /\ apc'[t] # apc[t])
                 => (apc'[t] = "idle" /\ acall'[t].ret = 0)
      ]_vars

\* C22's case: the handler has ended the process from a thread that faulted
\* with no checkpoint armed, after another thread's armed checkpoint had taken
\* it back to its recovery point and its call had returned 0.
C22_Witness ==
    \E t \in Threads, u \in Threads :
        /\ ~alive /\ exit_code = 128 + SIGSEGV
        /\ apc[t] = "handler" /\ ~acall[t].trapped /\ acall[t].sig = SIGSEGV
        /\ recovery_buffer_ready[TlsSlot(t)] = 0
        /\ apc[u] = "idle" /\ acall[u].trapped /\ acall[u].ret = 0

\* The entries of install_log that are sigaction calls for signal_number.
SigactionsFor(signal_number) ==
    {i \in DOMAIN install_log :
        install_log[i] = InstallStep(install_log[i].thread, "sigaction", signal_number)}

\* Thread t is inside the part of the installation that changes state.
Installing(t) == apc[t] \in {"i_stack", "i_segv", "i_bus"}

StepsOf(call) == {i \in DOMAIN install_log : install_log[i].call = call}

\* C24: the alternate signal stack is allocated at most once, before any
\* handler is installed, and is never freed, whatever the outcome of the
\* installation steps.
C24_StackAllocatedOnceAndNeverFreed ==
    /\ signal_handler_stack.allocs <= 1
    /\ \A i \in StepsOf("malloc"), j \in StepsOf("sigaction") : i < j
    /\ signal_handler_stack.frees = 0
    /\ StepsOf("free") = {}

\* What holds of C24: at most one allocation, made before the first sigaction;
\* the block is freed exactly when sigaltstack refused it, and a registered
\* block is never freed.
StackAllocatedAtMostOnceBeforeHandlers ==
    /\ signal_handler_stack.allocs <= 1
    /\ \A i \in StepsOf("malloc"), j \in StepsOf("sigaction") : i < j
    /\ signal_handler_stack.registered => signal_handler_stack.frees = 0
    /\ signal_handler_stack.frees <= signal_handler_stack.allocs

(***************************************************************************)
(* scan_for_dex_signature read by read, with another thread writing to the *)
(* scanned memory: dex_detector.c:14-138                                   *)
(***************************************************************************)

\* The scanner's locals: where it is, the loop variable, the limit of line 97
\* and the values validate_dex_header_structure has read so far.
ScanEntry ==
    [pc |-> "call", current_offset |-> 0, actual_scan_limit |-> 0,
     dex_file_size |-> 0, string_table_size |-> 0, changed |-> FALSE]

\* One call of read_memory_safely(scan_start + offset, ..., size) by the scan.
ReadAt(offset, size, what) == [offset |-> offset, size |-> size, what |-> what]

\* The loop condition of line 103 letting the probe start at any offset below
\* the limit.
WithinScanLimitToTheLastByte(current_offset, actual_scan_limit) ==
    current_offset < actual_scan_limit

\* The loop condition of line 103: current_offset <= actual_scan_limit - 8.
WithinScanLimit(current_offset, actual_scan_limit) ==
    current_offset <= actual_scan_limit - 8

\* current_offset += 4 and back to the loop condition.
NextStride(d) == [d EXCEPT !.pc = "probe", !.current_offset = @ + 4]

\* Lines 94-98: the argument checks and the scanning limit.
ScanEnter ==
    /\ UNCHANGED <<accVars, regVars, wrkVars, hdrVars, runVars, mapVars, shaVars>>
    /\ dpc.pc = "call"
    /\ LET actual_scan_limit ==
               IF dmem.limit > dmem.size THEN dmem.size ELSE dmem.limit
       IN  IF dmem.size = 0 \/ actual_scan_limit < 8
           THEN /\ dpc' = [dpc EXCEPT !.pc = "done"]
                /\ detection_result' = NotFound
           ELSE /\ dpc' = [dpc EXCEPT !.pc = "probe",
                                      !.actual_scan_limit = actual_scan_limit]
                /\ UNCHANGED detection_result
    /\ UNCHANGED <<dmem, dlog>>

\* Lines 103-118: the loop condition, the 8-byte probe, the comparison with the
\* magics and, on a match, the bounds check of line 17.
ScanProbe ==
    /\ UNCHANGED <<accVars, regVars, wrkVars, hdrVars, runVars, mapVars, shaVars>>
    /\ dpc.pc = "probe"
    /\ IF ~WithinScanLimit(dpc.current_offset, dpc.actual_scan_limit)
       THEN /\ dpc' = [dpc EXCEPT !.pc = "done"]
            /\ detection_result' = NotFound
            /\ UNCHANGED dlog
       ELSE /\ dlog' = Append(dlog, ReadAt(dpc.current_offset, 8, "probe"))
            /\ UNCHANGED detection_result
            /\ dpc' =
                 IF ~CanRead(dmem, dpc.current_offset, 8) THEN NextStride(dpc)
                 ELSE IF ~SignatureMatches(<< Word(dmem, dpc.current_offset \div 4),
                                              Word(dmem, dpc.current_offset \div 4 + 1) >>)
                      THEN NextStride(dpc)
                 ELSE IF dpc.current_offset + DEX_HEADER_SIZE > dmem.size
                      THEN NextStride(dpc)
                 ELSE [dpc EXCEPT !.pc = "v_file_size"]
    /\ UNCHANGED dmem

\* The field validate_dex_header_structure reads at position pc, and the
\* position after it.
FieldReadAt(pc) ==
    CASE pc = "v_file_size"       -> [offset |-> OFF_FILE_SIZE, next |-> "v_header_size"]
      [] pc = "v_header_size"     -> [offset |-> OFF_HEADER_SIZE, next |-> "v_endian_tag"]
      [] pc = "v_endian_tag"      -> [offset |-> OFF_ENDIAN_TAG, next |-> "v_string_ids_size"]
      [] pc = "v_string_ids_size" -> [offset |-> OFF_STRING_IDS_SIZE, next |-> "v_string_ids_off"]
      [] pc = "v_string_ids_off"  -> [offset |-> OFF_STRING_IDS_OFF, next |-> "size"]

\* The checks that follow the read of a field (lines 27-37, 47, 58, 73-74):
\* TRUE when validate_dex_header_structure returns 0 there.
FieldRejected(d, pc, value, buffer_size) ==
    CASE pc = "v_file_size" ->
             \/ SizeOutOfRange(value)
             \/ value > buffer_size - d.current_offset
      [] pc = "v_header_size" -> value # DEX_HEADER_SIZE
      [] pc = "v_endian_tag" -> value # ENDIAN_CONSTANT
      [] pc = "v_string_ids_size" -> FALSE
      [] pc = "v_string_ids_off" ->
             StringTableOutOfBounds(value, d.string_table_size, d.dex_file_size)

\* One read_memory_safely call of validate_dex_header_structure (lines 21, 42,
\* 54, 66, 68) and the checks on the value read.
ValidateRead ==
    /\ UNCHANGED <<accVars, regVars, wrkVars, hdrVars, runVars, mapVars, shaVars>>
    /\ dpc.pc \in {"v_file_size", "v_header_size", "v_endian_tag",
                   "v_string_ids_size", "v_string_ids_off"}
    /\ LET field == FieldReadAt(dpc.pc)
           at == dpc.current_offset + field.offset
           value == U32(Word(dmem, at \div 4))
       IN  /\ dlog' = Append(dlog, ReadAt(at, 4, "field"))
           /\ dpc' =
                IF ~CanRead(dmem, at, 4) THEN NextStride(dpc)
                ELSE IF FieldRejected(dpc, dpc.pc, value, dmem.size) THEN NextStride(dpc)
                ELSE [dpc EXCEPT !.pc = field.next,
                                 !.dex_file_size =
                                     IF dpc.pc = "v_file_size" THEN value ELSE @,
                                 !.string_table_size =
                                     IF dpc.pc = "v_string_ids_size" THEN value ELSE @]
    /\ UNCHANGED <<dmem, detection_result>>

\* Lines 121-129: the size is read from memory again and that value is
\* reported.
ScanReadSize ==
    /\ UNCHANGED <<accVars, regVars, wrkVars, hdrVars, runVars, mapVars, shaVars>>
    /\ dpc.pc = "size"
    /\ LET at == dpc.current_offset + OFF_FILE_SIZE
       IN  /\ dlog' = Append(dlog, ReadAt(at, 4, "size"))
           /\ IF CanRead(dmem, at, 4)
              THEN /\ detection_result' =
                         [ret |-> 1, dex_address |-> dpc.current_offset,
                          dex_size |-> U32(Word(dmem, at \div 4))]
                   /\ dpc' = [dpc EXCEPT !.pc = "done"]
              ELSE /\ dpc' = NextStride(dpc)
                   /\ UNCHANGED detection_result
    /\ UNCHANGED dmem

\* The size fields another thread of the process may overwrite during the
\* scan (those of the headers at offsets 0 and 16), and what it writes.
PokedWords == {OFF_FILE_SIZE \div 4, (16 + OFF_FILE_SIZE) \div 4}
PokedValues == {<<0, 8, 0, 0>>, <<0, 0, 0, 4>>}

\* Another thread stores v at word w of the region while the scan is between
\* two reads.
Poke(w, v) ==
    /\ UNCHANGED <<accVars, regVars, wrkVars, hdrVars, runVars, mapVars, shaVars>>
    /\ dpc.pc \notin {"call", "done"}
    /\ dlog # <<>>
    /\ Word(dmem, w) # v
    /\ dmem' = [dmem EXCEPT !.words = (w :> v) @@ @]
    /\ dpc' = [dpc EXCEPT !.changed = TRUE]
    /\ UNCHANGED <<detection_result, dlog>>

NextReads ==
    \/ ScanEnter
    \/ ScanProbe
    \/ ValidateRead
    \/ ScanReadSize
    \/ \E w \in PokedWords, v \in PokedValues : Poke(w, v)

\* The regions scanned read by read.
ReadMemories ==
    { [size |-> n, words |-> b @@ a, holes |-> u, limit |-> 0] :
        n \in {8, 112, 1040, 2064},
        a \in {NoWords, HeaderWords(0, GoodHeader)},
        b \in {NoWords, HeaderWords(16, GoodHeader), HeaderWords(16, SmallHeader),
               HeaderWords(16, SwappedEndianHeader)},
        u \in {{}, {4}} }

InitReads ==
    /\ alive = TRUE
    /\ exit_code = -1
    /\ disposition = [s \in Signals |-> "default"]
    /\ signal_handlers_installed = 0
    /\ signal_handler_stack = NoStack
    /\ signal_handler_mutex = 0
    /\ install_log = <<>>
    /\ recovery_buffer_ready = [s \in Threads |-> 0]
    /\ signal_recovery_buffer = [s \in Threads |-> "unset"]
    /\ apc = [t \in Threads |-> "idle"]
    /\ areq = [t \in Threads |-> NoRequest]
    /\ acall = [t \in Threads |-> NoCall]
    /\ dumped_files_registry = NullArray
    /\ dumped_files_count = 0
    /\ dumped_files_capacity = 0
    /\ dump_registry_mutex = 0
    /\ reg_log = <<>>
    /\ reg_last = NoCallYet
    /\ reg_pre = EmptyRegistry
    /\ wpc = 0 /\ wjob = 0 /\ wop = 0 /\ wret = 0 /\ wdone = 0
    /\ out_dir = {} /\ files_written = 0
    /\ hdr = 0 /\ hin = 0 /\ hout = -1
    /\ \E m \in ReadMemories, max_scan_limit \in ScanLimits :
          dmem = [m EXCEPT !.limit = max_scan_limit]
    /\ dpc = ScanEntry
    /\ detection_result = [NotFound EXCEPT !.ret = -1]
    /\ dlog = <<>>
    /\ memory_regions = <<>> /\ rpc = 0 /\ package_name = <<>>
    /\ total_dumps_successful = 0
    /\ processed_region_count = 0 /\ rlog = <<>>
    /\ maps_file = <<>> /\ regions_array = 0 /\ region_count = 0
    /\ regions_capacity = 0 /\ mpc = 0
    /\ sha_ctx = 0 /\ sha_feed = 0 /\ sha_pc = 0

SpecReads == InitReads /\ [][NextReads]_vars

(***************************************************************************)
(* Claims about the scan's reads, checked under SpecReads                  *)
(***************************************************************************)

\* C25: whenever scan_for_dex_signature returns 1, even if another thread wrote
\* to the scanned memory between two of its reads, the dex_size it reports is
\* the value validate_dex_header_structure accepted: at least 1024, at most
\* 50 MiB, and dex_address + dex_size is not past the end of the region.
C25_ReportedSizeIsTheValidatedSize ==
    detection_result.ret = 1 =>
        /\ detection_result.dex_size = dpc.dex_file_size
        /\ detection_result.dex_size >= DEX_MIN_FILE_SIZE
        /\ detection_result.dex_size <= DEX_MAX_FILE_SIZE
        /\ detection_result.dex_address + detection_result.dex_size <= dmem.size

\* What holds of C25: the reported size is the validated one when nothing wrote
\* to the region during the call.
ReportedSizeIsValidatedInUnchangedMemory ==
    (detection_result.ret = 1 /\ ~dpc.changed) =>
        /\ detection_result.dex_size = dpc.dex_file_size
        /\ detection_result.dex_size >= DEX_MIN_FILE_SIZE
        /\ detection_result.dex_size <= DEX_MAX_FILE_SIZE
        /\ detection_result.dex_address + detection_result.dex_size <= dmem.size

\* min(max_scan_limit, scan_size) of the call.
ProbedPrefix == IF dmem.limit < dmem.size THEN dmem.limit ELSE dmem.size

\* C30: every range scan_for_dex_signature and the header validation it
\* triggers ask the accessor to read lies inside the region, every 8-byte
\* signature probe lies inside the first min(max_scan_limit, scan_size) bytes,
\* and with a limit below 8 nothing is read.
C30_EveryReadLiesInsideTheRegion ==
    /\ \A i \in DOMAIN dlog :
          /\ dlog[i].offset >= 0
          /\ dlog[i].offset + dlog[i].size <= dmem.size
          /\ dlog[i].what = "probe" =>
                (dlog[i].size = 8 /\ dlog[i].offset + 8 <= ProbedPrefix)
    /\ dmem.limit < 8 => dlog = <<>>

\* C30's case: a scan that ran to its limit of 72 bytes in a larger region: its
\* last probe ends exactly at the limit, and on the way a header was taken
\* through validation reads.
C30_Witness ==
    /\ dpc.pc = "done" /\ detection_result.ret = 0
    /\ dmem.limit = 72 /\ dmem.size > 72
    /\ dlog # <<>>
    /\ dlog[Len(dlog)] = ReadAt(64, 8, "probe")
    /\ \E i \in DOMAIN dlog : dlog[i] = ReadAt(16 + OFF_ENDIAN_TAG, 4, "field")

(***************************************************************************)
(* The two strategies compared, checked under SpecDetect                   *)
(***************************************************************************)

\* C26: with memory unchanged during the call, whenever
\* scan_region_for_dex_files returns 0 on a region, scan_region_for_oat_dex_files
\* returns 0 on it too, so perform_comprehensive_dex_detection returns what the
\* plain scan alone returns; the container strategy, when it is invoked, finds
\* nothing.
C26_ContainerScanFindsNothingThePlainScanMissed ==
    LET plain == scan_region_for_dex_files(dmem)
    IN  /\ plain.ret = 0 => scan_region_for_oat_dex_files(dmem).ret = 0
        /\ perform_comprehensive_dex_detection(dmem) = plain
        /\ \A n \in DOMAIN dlog :
              dlog[n].detection_type = "OAT container" => dlog[n].result.ret = 0
        /\ dpc.returned =>
              detection_result = (IF plain.ret = 1 THEN plain ELSE NotFound)

\* C26's case: a region larger than 64 KiB that starts with the OAT magic and
\* holds a DEX magic with an invalid header past the first 64 KiB; the plain
\* scan returned 0, the container scan was invoked on it and returned 0.
C26_Witness ==
    /\ dpc.returned
    /\ dmem.size > OAT_SCAN_LIMIT
    /\ Word(dmem, 0) = OAT_MAGIC
    /\ SevenBytesAt(dmem, OAT_SCAN_LIMIT) \in DexPrefixes
    /\ Len(dlog) = 2
    /\ dlog[1].result.ret = 0
    /\ dlog[2].detection_type = "OAT container" /\ dlog[2].result.ret = 0

(***************************************************************************)
(* The registry's shape, checked under SpecRegistry                        *)
(***************************************************************************)

\* The indices of the array dumped_files_registry points to.
AllocatedSlots(S) == IF S.registry.null THEN {} ELSE 0..(S.capacity - 1)

\* C27: after every completed registry call, in any sequence of lookups,
\* registrations (with or without allocation failure) and cleanups,
\* 0 <= count <= capacity, capacity is 0 or MAX_DUMPED_FILES and the array is
\* non-null whenever count > 0; a registration moves entries only inside an
\* allocated array of MAX_DUMPED_FILES slots and writes its entry at an index
\* inside the allocated array.
C27_RegistryShapeIsKept ==
    /\ dumped_files_count >= 0
    /\ dumped_files_count <= dumped_files_capacity
    /\ dumped_files_capacity \in {0, MAX_DUMPED_FILES}
    /\ dumped_files_count > 0 => ~dumped_files_registry.null
    /\ ~dumped_files_registry.null =>
          DOMAIN dumped_files_registry.slot = 0..(dumped_files_capacity - 1)
    /\ (reg_last.op = "register" /\ reg_pre.count >= MAX_DUMPED_FILES) =>
          /\ reg_pre.count = MAX_DUMPED_FILES
          /\ AllocatedSlots(reg_pre) = 0..(MAX_DUMPED_FILES - 1)
    /\ (reg_last.op = "register" /\ reg_last.stored) =>
          /\ dumped_files_count - 1 \in AllocatedSlots(Registry)
          /\ dumped_files_registry.slot[dumped_files_count - 1] =
                [inode_number |-> reg_last.inode, sha1_digest |-> reg_last.digest]

\* C27's case: a registration into a full registry has just moved the entries
\* down and written the new one in the last slot (more entries were registered
\* since the array was last empty than the array holds).
C27_Witness ==
    /\ reg_last.op = "register" /\ reg_last.stored
    /\ reg_pre.count = MAX_DUMPED_FILES
    /\ dumped_files_count = MAX_DUMPED_FILES
    /\ Len(reg_log) > MAX_DUMPED_FILES

(***************************************************************************)
(* One task calling dump_memory_to_file again and again: file_utils.c      *)
(***************************************************************************)

\* The regions' inodes (0: anonymous), the payloads' digests (one more than the
\* registry holds, and the excluded one) and sizes.
DumpInodes == {0, 5}
DumpDigests == 1..(MAX_DUMPED_FILES + 1) \cup ExcludedDigests
DumpSizes == {DEX_MIN_FILE_SIZE - 1, 2 * DEX_MIN_FILE_SIZE}

\* The calls the task makes: a region's inode, the payload's digest and size,
\* what the environment does to the call, and whether the output directory
\* holds a file with that digest when the call looks (files of earlier runs
\* stay there, and the directory is open to other processes).  A call that is
\* turned down for its size or its digest is given the benign environment.
DumpCalls ==
    { c \in [ inode_number : DumpInodes, sha1_digest : DumpDigests,
              data_size : DumpSizes, env : DumpOutcomes, in_directory : BOOLEAN ] :
        /\ (c.data_size < DEX_MIN_FILE_SIZE \/ c.sha1_digest \in ExcludedDigests)
              => (c.env = [dirOk |-> TRUE, write |-> "written", reallocOk |-> TRUE]
                  /\ ~c.in_directory)
        /\ c.data_size < DEX_MIN_FILE_SIZE => c.sha1_digest = 1
        /\ c.env.write # "written" => (c.env.dirOk /\ c.env.reallocOk /\ ~c.in_directory)
        /\ c.in_directory => c.env.reallocOk
        /\ ~c.env.dirOk => c.in_directory }

\* One whole call of dump_memory_to_file by the task.  reg_pre keeps the
\* registry as it was before the call, reg_last what the call was given and
\* what it returned, rlog the size it was given, what the directory check
\* answered and whether the file could be written.  The files themselves and
\* the caller's counters (main.c:66-72) are not followed.
DumpCall(c) ==
    /\ UNCHANGED <<accVars, hdrVars, detVars, mapVars, shaVars>>
    /\ dump_registry_mutex = 0
    /\ LET dir == IF c.in_directory THEN {c.sha1_digest} ELSE {}
           d == dump_memory_to_file(Registry, dir, c.inode_number, c.sha1_digest,
                                    c.data_size, c.env)
       IN  /\ dumped_files_registry' = d.S.registry
           /\ dumped_files_count' = d.S.count
           /\ dumped_files_capacity' = d.S.capacity
           /\ reg_last' = [NoCallYet EXCEPT !.op = "dump", !.inode = c.inode_number,
                                            !.digest = c.sha1_digest, !.ret = d.ret,
                                            !.stored = d.stored,
                                            !.alloc_failed = (d.ret = 1 /\ ~d.stored)]
           /\ rlog' = <<[data_size |-> c.data_size,
                         duplicate |-> is_sha1_duplicate_in_directory(
                                           dir, c.sha1_digest, c.env.dirOk),
                         written |-> (c.env.write = "written")]>>
    /\ reg_pre' = Registry
    /\ UNCHANGED <<dump_registry_mutex, reg_log, wrkVars, memory_regions, rpc,
                   package_name, total_dumps_successful, processed_region_count>>

NextDumps ==
    \/ \E c \in DumpCalls : DumpCall(c)
    \/ CallCleanup

\* Process start: an empty registry, no file written yet.
InitDumps ==
    /\ alive = TRUE
    /\ exit_code = -1
    /\ disposition = [s \in Signals |-> "default"]
    /\ signal_handlers_installed = 0
    /\ signal_handler_stack = NoStack
    /\ signal_handler_mutex = 0
    /\ install_log = <<>>
    /\ recovery_buffer_ready = [s \in Threads |-> 0]
    /\ signal_recovery_buffer = [s \in Threads |-> "unset"]
    /\ apc = [t \in Threads |-> "idle"]
    /\ areq = [t \in Threads |-> NoRequest]
    /\ acall = [t \in Threads |-> NoCall]
    /\ dumped_files_registry = NullArray
    /\ dumped_files_count = 0
    /\ dumped_files_capacity = 0
    /\ dump_registry_mutex = 0
    /\ reg_log = <<>>
    /\ reg_last = NoCallYet
    /\ reg_pre = EmptyRegistry
    /\ wpc = 0 /\ wjob = 0 /\ wop = 0 /\ wret = 0 /\ wdone = 0
    /\ out_dir = {} /\ files_written = 0
    /\ hdr = 0 /\ hin = 0 /\ hout = -1
    /\ dmem = 0 /\ dpc = 0 /\ detection_result = 0 /\ dlog = <<>>
    /\ memory_regions = <<>> /\ rpc = 0 /\ package_name = <<>>
    /\ total_dumps_successful = 0
    /\ processed_region_count = 0 /\ rlog = <<>>
    /\ maps_file = <<>> /\ regions_array = 0 /\ region_count = 0
    /\ regions_capacity = 0 /\ mpc = 0
    /\ sha_ctx = 0 /\ sha_feed = 0 /\ sha_pc = 0

SpecDumps == InitDumps /\ [][NextDumps]_vars

(***************************************************************************)
(* Claims about dump_memory_to_file and the registry, checked under        *)
(* SpecDumps                                                               *)
(***************************************************************************)

\* The entry the last call of dump_memory_to_file was to register.
EntryOfLastDump == [inode_number |-> reg_last.inode, sha1_digest |-> reg_last.digest]

\* The retained entries after one more registration: the oldest leaves when
\* the registry is full.
RetainedAfterOneMore(S, entry) ==
    Append(IF S.count >= MAX_DUMPED_FILES THEN Tail(Retained(S)) ELSE Retained(S),
           entry)

\* C28: dump_memory_to_file adds exactly one registry entry, with the digest of
\* the written bytes and the region's inode, when and only when it returns 1
\* after a complete write; on every path that returns 0 the registry is as it
\* was before the call.
C28_OneEntryExactlyWhenTheDumpReturnsOne ==
    reg_last.op = "dump" =>
        IF reg_last.ret = 1
        THEN /\ rlog[1].written
             /\ Retained(Registry) = RetainedAfterOneMore(reg_pre, EntryOfLastDump)
        ELSE Registry = reg_pre

\* What holds of C28: a call that returns 0 leaves the registry as it was; a
\* call that returns 1 wrote the whole file and added exactly its entry unless
\* the registry's storage could not be allocated, and then it added none.
OneEntryUnlessTheRegistryCannotGrow ==
    reg_last.op = "dump" =>
        IF reg_last.ret = 1
        THEN /\ rlog[1].written
             /\ IF reg_last.stored
                THEN Retained(Registry) = RetainedAfterOneMore(reg_pre, EntryOfLastDump)
                ELSE Registry = reg_pre /\ reg_pre.capacity < MAX_DUMPED_FILES
        ELSE Registry = reg_pre

\* C29: with one task making every insertion through dump_memory_to_file, no
\* two retained entries have the same digest and no two have the same non-zero
\* inode; entries with inode 0 may repeat, and a call for an anonymous region
\* (inode 0) is turned down only for its size, its digest (excluded, registered
\* or found in the directory) or a failed write, never by the inode check.
C29_RetainedEntriesAreUniqueAndAnonymousRegionsPass ==
    /\ \A i \in 1..dumped_files_count, j \in 1..dumped_files_count :
          i < j =>
             /\ Retained(Registry)[i].sha1_digest # Retained(Registry)[j].sha1_digest
             /\ Retained(Registry)[i].inode_number # 0 =>
                   Retained(Registry)[i].inode_number # Retained(Registry)[j].inode_number
    /\ (reg_last.op = "dump" /\ reg_last.inode = 0 /\ reg_last.ret = 0) =>
          \/ rlog[1].data_size < DEX_MIN_FILE_SIZE
          \/ rlog[1].data_size > DEX_MAX_FILE_SIZE
          \/ is_sha1_excluded(reg_last.digest) = 1
          \/ is_checksum_already_dumped(reg_pre, reg_last.digest) = 1
          \/ rlog[1].duplicate = 1
          \/ ~rlog[1].written

\* C29's case: the registry is full, two of its entries are for anonymous
\* regions, and the last call, for another anonymous region, returned 1 and
\* evicted the oldest entry.
C29_Witness ==
    /\ reg_last.op = "dump" /\ reg_last.inode = 0 /\ reg_last.ret = 1
    /\ reg_pre.count = MAX_DUMPED_FILES
    /\ dumped_files_count = MAX_DUMPED_FILES
    /\ \E i \in 1..dumped_files_count, j \in 1..dumped_files_count :
          /\ i < j
          /\ Retained(Registry)[i].inode_number = 0
          /\ Retained(Registry)[j].inode_number = 0
    /\ \E i \in 1..dumped_files_count : Retained(Registry)[i].inode_number # 0

====
